---- MODULE Spec2Model ----
(***************************************************************************)
(* Update orchestration core of lets-go-rss: the SQLite item store         *)
(* (scripts/database.py), the update run of RSSEngine and the update lock  *)
(* (scripts/rss_engine.py).  Each process is one command-line invocation   *)
(* `rss_engine.py --update`; its worker tasks are the futures that         *)
(* update_all submits to the thread pool.                                  *)
(***************************************************************************)
EXTENDS Integers, Sequences, FiniteSets, TLC

\* ------------------------------------------------------------------ bounds
NumProcs == 2          \* command-line invocations
NumSubs == 2           \* subscription rows in the store
NumKeys == 2           \* distinct source-native item identifiers per platform
MaxItems == 2          \* length of the item list one fetch returns
MaxWorkersEnv == 2     \* largest value of RSS_MAX_WORKERS tried
PortableSubs == 1      \* subscription rows when the platform is left open
MaxAdds == 1           \* `--add URL` invocations
MaxRetries == 3        \* largest retry count configured or passed to get
DayLen == 2
MaxTicks == 3
MaxEntries == 22
NumCallers == 2        \* concurrent callers of the store's add_subscription

Procs == 1..NumProcs
SubIds == 1..NumSubs
NativeIds == 1..NumKeys

\* None, and every falsy error text, is the empty string; NULL is the timestamp
\* column's empty value, earlier than every clock value
None == ""
NULL == 0
DEFAULT_CATEGORY == "other"
WorkerEnvs == (0 - 1)..MaxWorkersEnv

VARIABLES
  hasFcntl,            \* the platform provides the fcntl module
  flockHeld,           \* processes whose open lock file holds the exclusive flock
  lockFile,            \* text of .update.lock: empty, or one pid/started record
  clock,               \* wall clock: the number of invocations started so far
  subscriptions,       \* table subscriptions, row i has id i
  items,               \* table items, row i has rowid i
  pc,                  \* per process: position in main()/update_all()
  started,             \* per process: clock value when the run took the lock
  max_workers,         \* per process: pool size of the run
  tasks,               \* per process: one future per subscription of the snapshot
  results,             \* per process: sub id -> (count, error)
  all_new_items,       \* per process
  error_rows,          \* per process
  summary,             \* per process: the totals update_all prints
  ret,                 \* per process: value returned by update_all
  outcome,             \* per process: how main() ended
  addCalled,           \* history: item keys add_item was called with
  addTrue,             \* history: add_item calls that returned True per item key
  created,             \* history: rows created by the add_item calls of each run
  scraper,             \* one adapter instance and its fetch_items call in progress
  scraped,             \* item_ids stored from that adapter, each with the item it denotes
  http,                \* one BaseScraper and its get call in progress
  caller,              \* a client of the store: its calls and what they returned
  adder,               \* the invocations `--add URL`: their number, and whether one
                       \* is between its insert and its first fetch
  dates,               \* a date string handed to _normalize_date, followed by what
                       \* each successive call returned
  fill,                \* one call of _fetch_subscription followed item by item: the
                       \* list it fetched and when it asked for the title back-fill
  report,              \* the report step of one run: its recorded start, and the
                       \* items it handed to the update report
  registry,            \* the last `--add URL` followed through the adapter registry,
                       \* and the last get_scraper call of a fetch task
  feed,                \* one payload handed to an adapter path, and the items the
                       \* path returned for it
  instances,           \* the adapter instances of two fetch tasks running at once
  lazy                 \* one RSSEngine: its _classifier slot and the worker tasks
                       \* on their way through the classifier property

storeVars == <<subscriptions, items>>
lockVars == <<flockHeld, lockFile>>
runVars == <<pc, started, max_workers, tasks, results,
             all_new_items, error_rows, summary, ret, outcome>>
histVars == <<addCalled, addTrue, created>>
chainVars == <<scraper, scraped>>
callVars == <<http, caller>>
tailVars == <<feed, instances, lazy>>
lateVars == <<report, registry, tailVars>>
pureVars == <<dates, fill, lateVars>>
auxVars == <<adder, chainVars, callVars, pureVars>>
vars == <<hasFcntl, clock, storeVars, lockVars, runVars, histVars, auxVars>>

\* ------------------------------------------------------------------ store
\* platform tag of the subscription rows the store starts with
PlatformOf(i) == IF i % 3 = 0 THEN "bilibili" ELSE "youtube"

\* title=f"{platform.title()} Subscription"
PlaceholderTitle(platform) == <<platform, "Subscription">>

\* description=f"Content from {platform}"
PlaceholderDescription(platform) == <<"Content from", platform>>

\* the row INSERT INTO subscriptions (url, platform, title, description) writes
NewSubscriptionRow(id, url, platform, title, description) ==
  [id |-> id, url |-> url, platform |-> platform, title |-> title,
   description |-> description, last_updated |-> NULL, active |-> 1]

\* the row of the i-th subscription the engine added, for the URL numbered i
SubscriptionRow(i) ==
  NewSubscriptionRow(i, i, PlatformOf(i), PlaceholderTitle(PlatformOf(i)),
                     PlaceholderDescription(PlatformOf(i)))

\* item_id = f"{platform}_{native id}"
ItemKey(platform, n) == <<platform, n>>

AllKeys == {ItemKey(PlatformOf(s), n) : s \in SubIds, n \in NativeIds}

\* a mutant of add_subscription: INSERT OR REPLACE on the url
add_subscription_replace(subs, url, platform, title, description) ==
  LET hit == {i \in 1..Len(subs) : subs[i].url = url} IN
    IF hit = {}
      THEN [subs |-> Append(subs, NewSubscriptionRow(Len(subs) + 1, url, platform,
                                                     title, description)),
            id |-> Len(subs) + 1]
      ELSE LET i == CHOOSE j \in hit : TRUE
           IN [subs |-> [subs EXCEPT ![i] = NewSubscriptionRow(subs[i].id, url,
                                               platform, title, description)],
               id |-> subs[i].id]

\* INSERT INTO subscriptions; on IntegrityError (url is UNIQUE) SELECT id of
\* the existing row; ids are AUTOINCREMENT and no row is ever deleted
add_subscription(subs, url, platform, title, description) ==
  LET hit == {i \in 1..Len(subs) : subs[i].url = url} IN
    IF hit = {}
      THEN [subs |-> Append(subs, NewSubscriptionRow(Len(subs) + 1, url, platform,
                                                     title, description)),
            id |-> Len(subs) + 1]
      ELSE [subs |-> subs, id |-> subs[CHOOSE j \in hit : TRUE].id]

\* SELECT * FROM subscriptions WHERE active = 1
get_subscriptions(subs) == SelectSeq(subs, LAMBDA r : r.active = 1)

\* SELECT 1 FROM items WHERE item_id = ?
item_exists(rows, key) == \E i \in 1..Len(rows) : rows[i].item_id = key

\* a date string is the shape of its text and the instant it denotes:
\* "iso" 2026-02-11T02:07:30, "iso_space" 2026-02-11 02:07, "rfc822"
\* Wed, 11 Feb 2026 02:07:30 GMT, "dateonly" 2026-02-11, "text" anything else
\* _ISO_DATE_RE.match: four digits, two, two, T or a space, then HH:MM
ISO_DATE_RE(d) == d.shape \in {"iso", "iso_space"}

\* email.utils.parsedate_to_datetime: the instant, or an exception
parsedate_to_datetime(d) ==
  IF d.shape = "rfc822" THEN [raised |-> FALSE, t |-> d.t] ELSE [raised |-> TRUE]

\* datetime.isoformat
isoformat(t) == [shape |-> "iso", t |-> t]

normalize_date_or_now(d, now) ==
  IF d.shape = "empty" THEN isoformat(now)
  ELSE IF ISO_DATE_RE(d) THEN d
  ELSE IF parsedate_to_datetime(d).raised THEN isoformat(now)
  ELSE isoformat(parsedate_to_datetime(d).t)

\* _normalize_date
normalize_date(d, now) ==
  IF d.shape = "empty" THEN isoformat(now)
  ELSE IF ISO_DATE_RE(d) THEN d
  ELSE IF parsedate_to_datetime(d).raised THEN d
  ELSE isoformat(parsedate_to_datetime(d).t)

\* the row the INSERT writes; fetched_at defaults to CURRENT_TIMESTAMP
NewItemRow(rows, raw, sid, category, now) ==
  [id |-> Len(rows) + 1, item_id |-> raw.item_id, subscription_id |-> sid,
   title |-> raw.title, category |-> category,
   pub_date |-> normalize_date(raw.pub_date, now), fetched_at |-> now,
   metadata |-> raw.metadata]

\* a mutant of add_item: INSERT OR REPLACE instead of INSERT OR IGNORE
add_item_replace(rows, raw, sid, category, now) ==
  LET kept == SelectSeq(rows, LAMBDA r : r.item_id # raw.item_id)
  IN [rows |-> Append(kept, NewItemRow(rows, raw, sid, category, now)), added |-> TRUE]

\* a mutant of add_item: an upsert that rewrites the stored row of the key
add_item_upsert(rows, raw, sid, category, now) ==
  IF item_exists(rows, raw.item_id)
    THEN [rows |-> [i \in 1..Len(rows) |->
                      IF rows[i].item_id = raw.item_id
                        THEN [rows[i] EXCEPT !.subscription_id = sid,
                                             !.title = raw.title,
                                             !.category = category]
                        ELSE rows[i]],
          added |-> FALSE]
    ELSE [rows |-> Append(rows, NewItemRow(rows, raw, sid, category, now)),
          added |-> TRUE]

\* INSERT OR IGNORE INTO items ...; return cursor.rowcount > 0
add_item(rows, raw, sid, category, now) ==
  IF item_exists(rows, raw.item_id)
    THEN [rows |-> rows, added |-> FALSE]
    ELSE [rows |-> Append(rows, NewItemRow(rows, raw, sid, category, now)),
          added |-> TRUE]

\* UPDATE subscriptions SET last_updated = CURRENT_TIMESTAMP WHERE id = ?
update_subscription_timestamp(subs, sid, now) ==
  [i \in 1..Len(subs) |->
     IF subs[i].id = sid THEN [subs[i] EXCEPT !.last_updated = now] ELSE subs[i]]

\* LIKE compares ASCII letters without regard to case
Lower(w) == IF w = "Subscription" THEN "subscription" ELSE w

\* title LIKE '%Subscription%' OR title = ''   (a title is a sequence of words)
LooksLikePlaceholder(title) ==
  title = <<>> \/ \E i \in 1..Len(title) : Lower(title[i]) = "subscription"

\* UPDATE subscriptions SET title = ? WHERE id = ? AND (placeholder)
update_subscription_title(subs, sid, title) ==
  [i \in 1..Len(subs) |->
     IF subs[i].id = sid /\ LooksLikePlaceholder(subs[i].title)
       THEN [subs[i] EXCEPT !.title = title] ELSE subs[i]]

\* ------------------------------------------------------------------ adapters
\* the item dict an adapter builds for native id n on the page of subscription sub
RawItem(sub, n) ==
  [item_id |-> ItemKey(sub.platform, n), title |-> <<sub.id, n>>,
   pub_date |-> [shape |-> "rfc822", t |-> n],
   metadata |-> [channel |-> <<"Chan">>]]

\* a feed lists distinct entries newest first; a larger native id is newer
FeedSeqs ==
  {q \in UNION {[1..k -> NativeIds] : k \in 1..MaxItems} :
     \A a, b \in DOMAIN q : a < b => q[a] > q[b]}

\* what scraper.fetch_items(url) can do: raise, or return a list and leave last_error
FetchOutcomes ==
  {[raised |-> "boom", ids |-> <<>>, last_error |-> None],
   [raised |-> None, ids |-> <<>>, last_error |-> "fetch failed"],
   [raised |-> None, ids |-> <<>>, last_error |-> None]}
  \cup {[raised |-> None, ids |-> q, last_error |-> None] : q \in FeedSeqs}

\* classifier.classify_item(title, description): a category label, or an
\* exception; the classifier modelled is a fixed function of the title
classify_item(title) == IF (title[1] + title[2]) % 2 = 0 THEN "RAISE" ELSE "tech"

\* main() passes use_llm, True unless --no-llm is given; with --no-llm every
\* item keeps the default label, as it does when the classifier raises
use_classification == TRUE

\* a mutant of CategoryFor: the label is whatever the classifier call left,
\* also when it raised
CategoryForNoDefault(use_cls, cls) == IF use_cls THEN cls ELSE DEFAULT_CATEGORY

\* item["category"] = default label, overwritten when classification is on and succeeds
CategoryFor(use_cls, cls) ==
  IF use_cls /\ cls # "RAISE" THEN cls ELSE DEFAULT_CATEGORY

\* re.sub of the platform suffixes and prefixes, then strip(): a name is a
\* sequence of words and the decorations are words of their own
Decorations == {"bilibili-space", "weibo-suffix", "Vimeo /", "'s videos"}
CleanChannelName(name) == SelectSeq(name, LAMBDA w : w \notin Decorations)

\* ------------------------------------------------------------------ adapter chains
\* adapters that try a second path, and the ones with a single path
Chained == {"youtube", "bilibili", "xiaohongshu", "twitter", "zsxq"}
SinglePath == {"weibo", "douyin", "vimeo", "behance"}
Platforms == Chained \cup SinglePath

\* what one path of an adapter can meet: a payload with items; a well-formed
\* payload without items; a page that is not the expected feed or JSON; an
\* anti-bot block (HTTP 503 or 403, a non-zero yt-dlp exit, a captcha
\* redirect, succeeded = false); a rate-limit status (HTTP 429); a timeout
PathOutcomes == {"items", "empty", "nonfeed", "blocked", "ratelimited", "timeout"}

\* str(e), or the text the path composes for its failure
ErrorText(platform, kind) ==
  CASE kind = "blocked" ->
         IF platform = "behance" THEN "403 Forbidden" ELSE "503 Service Unavailable"
    [] kind = "ratelimited" -> "429 Too Many Requests"
    [] kind = "timeout" -> "timed out"
    [] kind = "nonfeed" -> "Non-RSS content"
    [] kind = "empty" -> "Empty timeline"
    [] OTHER -> None

\* a mutant of Mentions403: no error text is taken for a rate limit
Mentions403Never(err) == FALSE

\* "403" in err, over the error texts above
Mentions403(err) == err \in {"403 Forbidden"}

\* a mutant of PrimaryPath: no adapter goes on to a second path
PrimaryPathNoFallback(platform, kind) ==
  [go |-> "return", last_error |-> ErrorText(platform, kind), pending |-> None]

\* the primary path of fetch_items after the id was extracted from the URL:
\* whether fetch_items returns or goes on to the fallback, the last_error set
\* so far and the error text kept in a local for later
PrimaryPath(platform, kind) ==
  LET err == ErrorText(platform, kind)
      returns(e) == [go |-> "return", last_error |-> e, pending |-> None]
      fallsBack(e, pend) == [go |-> "fallback", last_error |-> e, pending |-> pend]
  IN
  CASE kind = "items" -> returns(None)
    [] kind # "items" /\ platform = "youtube" ->
         \* exit 0 with no usable line returns []; a non-zero exit keeps
         \* err_text in a local; TimeoutExpired sets last_error first
         IF kind \in {"empty", "nonfeed"} THEN returns(None)
         ELSE IF kind = "timeout" THEN fallsBack(err, err)
         ELSE fallsBack(None, err)
    [] kind # "items" /\ platform = "bilibili" ->
         \* no items, or a non-XML page: falls out of the try to return [];
         \* an exception mentioning 503 tries the dynamic route
         IF kind \in {"empty", "nonfeed"} THEN returns(None)
         ELSE IF kind = "blocked" THEN fallsBack(None, err)
         ELSE returns(err)
    [] kind # "items" /\ platform = "xiaohongshu" ->
         \* only the captcha redirect records an error; every other failure
         \* of the browser path returns [] silently
         IF kind = "blocked" THEN fallsBack("XHS cookies expired", None)
         ELSE fallsBack(None, None)
    [] kind # "items" /\ platform \in {"twitter", "zsxq"} ->
         fallsBack(err, None)
    [] kind # "items" /\ platform \in {"weibo", "douyin"} ->
         IF kind = "empty" THEN returns(None) ELSE returns(err)
    [] kind # "items" /\ platform = "vimeo" ->
         \* any 200 page is parsed; a parse error gives [] with no error
         IF kind \in {"empty", "nonfeed"} THEN returns(None) ELSE returns(err)
    [] kind # "items" /\ platform = "behance" ->
         \* any 200 page is parsed; an exception whose text mentions 403 is
         \* treated as a temporary skip
         IF kind \in {"empty", "nonfeed"} THEN returns(None)
         ELSE IF Mentions403(err) THEN returns(None)
         ELSE returns(err)

\* last_error when fetch_items returns from its fallback path: `before` is
\* last_error on entry, `pending` the primary's error text kept in a local
FallbackPath(platform, before, pending, kind) ==
  CASE platform = "youtube" ->
         \* fallback items reset the error; otherwise the primary's error stays
         IF kind = "items" THEN None ELSE pending
    [] platform = "bilibili" ->
         \* items return at once; an exception reports both routes; anything
         \* else falls through to last_error = err_msg of the video route
         IF kind = "items" THEN None
         ELSE IF kind \in {"empty", "nonfeed"} THEN pending
         ELSE "Both routes failed"
    [] OTHER ->
         \* _fetch_via_rsshub: a parsed feed leaves last_error as it is
         IF kind \in {"items", "empty"} THEN before
         ELSE ErrorText(platform, kind)

\* ------------------------------------------------------------------ run state
\* a mutant of Max: the configured value is taken as it is
MaxUnfloored(a, b) == b

Max(a, b) == IF a >= b THEN a ELSE b

NoTasks == <<>>
NoResults == <<>>
NoRet == <<>>

\* a submitted future: the subscription row it was given, its position in
\* _fetch_subscription, how fetch_items ended ("raised", "empty" or "items"),
\* the list and last_error its scraper left, new_items, the add_item calls it
\* made so far and the exception it ended with
NewTask(sub) ==
  [sub |-> sub, st |-> "queued", fetched |-> None, ids |-> <<>>,
   last_error |-> None, idx |-> 1, chk |-> FALSE, new |-> <<>>, calls |-> <<>>,
   exc |-> None]

TaskIds(p) == 1..Len(tasks[p])
Finished(t) == t.st \in {"done", "raised"}
Executing(t) == t.st \in {"fetching", "running"}
AllFinished(p) == \A i \in TaskIds(p) : Finished(tasks[p][i])
Collected(p) == DOMAIN results[p]

\* a mutant of Advance: the loop never leaves its current item
AdvanceStuck(t) == [t EXCEPT !.chk = FALSE]

\* the task moves to its next item, or returns new_items after the last one
Advance(t) ==
  IF t.idx + 1 > Len(t.ids)
    THEN [t EXCEPT !.idx = t.idx + 1, !.chk = FALSE, !.st = "done"]
    ELSE [t EXCEPT !.idx = t.idx + 1, !.chk = FALSE]

\* a mutant of SkipExisting: the loop stops at the first item already stored
SkipExistingBreaks(t) == [t EXCEPT !.idx = Len(t.ids) + 1, !.chk = FALSE, !.st = "done"]

\* if self.db.item_exists(item_id): continue
SkipExisting(t) == Advance(t)

NoAdder == [pc |-> "none", count |-> 0]
NoFill == [pc |-> "none"]
NoReport == [pc |-> "none"]
NoRegistry == [pc |-> "none"]
NoFeed == [pc |-> "none"]
NoInstances == [pc |-> "none"]
NoLazy == [pc |-> "none"]

NoScraper == [pc |-> "none"]
NoHttp == [pc |-> "none"]
Callers == 1..NumCallers

\* no caller is inside add_subscription, and none has returned yet
NoCaller == [call |-> [c \in Callers |-> [pc |-> "idle"]],
             ids |-> [u \in SubIds |-> {}]]

\* no `--add` invocation is in progress, no adapter instance is under study
AuxIdle ==
  /\ adder = NoAdder
  /\ scraper = NoScraper
  /\ scraped = {}
  /\ http = NoHttp
  /\ caller = NoCaller
  /\ dates = <<>>
  /\ fill = NoFill
  /\ report = NoReport
  /\ registry = NoRegistry
  /\ feed = NoFeed
  /\ instances = NoInstances
  /\ lazy = NoLazy

\* a store with n subscriptions and no item yet, no process invoked
InitStore(n) ==
  /\ AuxIdle
  /\ flockHeld = {}
  /\ lockFile = <<>>
  /\ clock = 0
  /\ subscriptions = [i \in 1..n |-> SubscriptionRow(i)]
  /\ items = <<>>
  /\ pc = [p \in Procs |-> "idle"]
  /\ started = [p \in Procs |-> NULL]
  /\ max_workers = [p \in Procs |-> 1]
  /\ tasks = [p \in Procs |-> NoTasks]
  /\ results = [p \in Procs |-> NoResults]
  /\ all_new_items = [p \in Procs |-> <<>>]
  /\ error_rows = [p \in Procs |-> <<>>]
  /\ summary = [p \in Procs |-> <<>>]
  /\ ret = [p \in Procs |-> NoRet]
  /\ outcome = [p \in Procs |-> None]
  /\ addCalled = {}
  /\ addTrue = [k \in AllKeys |-> 0]
  /\ created = [p \in Procs |-> 0]

\* a platform with fcntl (the flock is taken), up to NumSubs subscriptions
Init == hasFcntl = TRUE /\ \E n \in 0..NumSubs : InitStore(n)

\* any platform: without fcntl update_lock takes no flock and runs overlap
InitPortable == hasFcntl \in BOOLEAN /\ \E n \in 0..PortableSubs : InitStore(n)

\* ------------------------------------------------------------------ update lock
\* processes are numbered in the order in which they are invoked
InvokedInOrder(p) == \A q \in 1..(p - 1) : pc[q] # "idle"

\* a mutant of TryFlock: a shared lock (LOCK_SH) never conflicts
TryFlockShared(has, held) == IF ~has THEN "ImportError" ELSE "ok"

\* import fcntl; fcntl.flock(fd, LOCK_EX | LOCK_NB): the import fails where the
\* module does not exist, the call fails at once while another open file
\* holds the lock
TryFlock(has, held) ==
  IF ~has THEN "ImportError"
  ELSE IF held = {} THEN "ok" ELSE "BlockingIOError"

\* a mutant of Unlock: the unlock follows the yield without a finally clause
UnlockOnReturnOnly(held, p, how) == IF how = "returned" THEN held \ {p} ELSE held

\* finally: fcntl.flock(fd, LOCK_UN); lock_file.close(), however the block was left
Unlock(held, p, how) == held \ {p}

\* a mutant of WriteHolder: the record is appended to what the file holds
WriteHolderAppend(file, p, now) == Append(file, [pid |-> p, started |-> now])

\* lock_file.seek(0); truncate(); write(f"pid={os.getpid()} started={now}\n")
WriteHolder(file, p, now) == <<[pid |-> p, started |-> now]>>

\* update_lock: open, flock(LOCK_EX | LOCK_NB) succeeds (or fcntl is missing),
\* the holder record is written
Acquire(p) ==
  /\ pc[p] = "idle"
  /\ InvokedInOrder(p)
  /\ TryFlock(hasFcntl, flockHeld) # "BlockingIOError"
  /\ clock' = clock + 1
  /\ flockHeld' = IF hasFcntl THEN flockHeld \cup {p} ELSE flockHeld
  /\ lockFile' = WriteHolder(lockFile, p, clock + 1)
  /\ pc' = [pc EXCEPT ![p] = "locked"]
  /\ UNCHANGED <<hasFcntl, auxVars, storeVars, started, max_workers, tasks, results,
                 all_new_items, error_rows, summary, ret, outcome, histVars>>

AlreadyRunning == "Another update is already running"

\* a mutant of MainExcept: every exception ends in sys.exit(1)
MainExceptExits(e) == "error"

\* main(), except Exception as e: the lock conflict is printed and main
\* returns; any other exception is printed and followed by sys.exit(1)
MainExcept(e) == IF e = AlreadyRunning THEN "already_running" ELSE "error"

\* the exit status of the process for each way main() ends
ExitStatus(how) == IF how \in {"error", "cancelled"} THEN 1 ELSE 0

\* update_lock: flock raises BlockingIOError, RuntimeError("Another update is
\* already running"); the finally clause closes the file; main() prints and returns
AcquireFail(p) ==
  /\ pc[p] = "idle"
  /\ InvokedInOrder(p)
  /\ TryFlock(hasFcntl, flockHeld) = "BlockingIOError"
  /\ pc' = [pc EXCEPT ![p] = "conflict"]
  /\ outcome' = [outcome EXCEPT ![p] = MainExcept(AlreadyRunning)]
  /\ UNCHANGED <<hasFcntl, auxVars, clock, storeVars, lockVars, started,
                 max_workers, tasks, results, all_new_items, error_rows, summary,
                 ret, histVars>>

\* a mutant of BlockLeft: the outputs are generated after the with block
BlockLeftBeforeOutputs(at) == at \in {"finalizing", "returned", "raised", "interrupted"}

\* `with update_lock(lock_path): engine.update_all(...)` is left when
\* update_all has returned or an exception or interrupt has come out of it
BlockLeft(at) == at \in {"returned", "raised", "interrupted"}

\* the finally clause of update_lock after the guarded block was left: by
\* return, by an exception, or by KeyboardInterrupt.  An exception leaves the
\* ThreadPoolExecutor block only after shutdown(wait=True), so every future of
\* the run has finished by then.  main() then returns, or calls sys.exit(1).
Release(p) ==
  /\ BlockLeft(pc[p])
  /\ AllFinished(p)
  /\ flockHeld' = Unlock(flockHeld, p, pc[p])
  /\ pc' = [pc EXCEPT ![p] = "unlocked"]
  /\ outcome' = [outcome EXCEPT ![p] =
                   CASE pc[p] = "returned" -> "ok"
                     [] pc[p] = "raised" -> MainExcept("output generation failed")
                     [] OTHER -> "cancelled"]
  /\ started' = [started EXCEPT ![p] = NULL]
  /\ max_workers' = [max_workers EXCEPT ![p] = 1]
  /\ tasks' = [tasks EXCEPT ![p] = NoTasks]
  /\ results' = [results EXCEPT ![p] = NoResults]
  /\ all_new_items' = [all_new_items EXCEPT ![p] = <<>>]
  /\ error_rows' = [error_rows EXCEPT ![p] = <<>>]
  /\ summary' = [summary EXCEPT ![p] = <<>>]
  /\ ret' = [ret EXCEPT ![p] = NoRet]
  /\ created' = [created EXCEPT ![p] = 0]
  /\ UNCHANGED <<hasFcntl, auxVars, clock, storeVars, lockFile, addCalled, addTrue>>

\* the process ends with the exit status of its outcome
Exit(p) ==
  /\ pc[p] \in {"unlocked", "conflict"}
  /\ pc' = [pc EXCEPT ![p] = "exited"]
  /\ outcome' = [outcome EXCEPT ![p] = None]
  /\ UNCHANGED <<hasFcntl, auxVars, clock, storeVars, lockVars, started,
                 max_workers, tasks, results, all_new_items, error_rows, summary,
                 ret, histVars>>

\* ------------------------------------------------------------------ update_all
\* a mutant of SubmitAll: every subscription is submitted twice
SubmitAllTwice(subs) == [i \in 1..(2 * Len(subs)) |-> NewTask(subs[((i - 1) % Len(subs)) + 1])]

\* for sub in subscriptions: future_to_sub[executor.submit(...)] = sub
SubmitAll(subs) == [i \in 1..Len(subs) |-> NewTask(subs[i])]

\* update_all up to the end of the submit loop: the snapshot of the active
\* subscriptions is read once; with none the run returns at once, otherwise
\* one future per subscription is queued on a pool of max(1, RSS_MAX_WORKERS)
FanOut(p, env) ==
  /\ pc[p] = "locked"
  /\ LET subs == get_subscriptions(subscriptions) IN
       IF subs = <<>>
         THEN /\ ret' = [ret EXCEPT ![p] =
                           [new_items |-> <<>>, total_subscriptions |-> 0]]
              /\ pc' = [pc EXCEPT ![p] = "returned"]
              /\ UNCHANGED <<max_workers, tasks>>
         ELSE /\ max_workers' = [max_workers EXCEPT ![p] = Max(1, env)]
              /\ tasks' = [tasks EXCEPT ![p] = SubmitAll(subs)]
              /\ pc' = [pc EXCEPT ![p] = "collecting"]
              /\ UNCHANGED ret
  /\ started' = [started EXCEPT ![p] = clock]
  /\ UNCHANGED <<hasFcntl, auxVars, clock, storeVars, lockVars, results,
                 all_new_items, error_rows, summary, outcome, histVars>>

\* a pool thread takes the oldest queued future (the work queue is first in,
\* first out) when fewer than max_workers futures are executing
StartTask(p, i) ==
  /\ pc[p] \in {"collecting", "interrupted", "abandoned"}
  /\ i \in TaskIds(p)
  /\ tasks[p][i].st = "queued"
  /\ \A j \in 1..(i - 1) : tasks[p][j].st # "queued"
  /\ Cardinality({j \in TaskIds(p) : Executing(tasks[p][j])}) < max_workers[p]
  /\ tasks' = [tasks EXCEPT ![p][i].st = "fetching"]
  /\ UNCHANGED <<hasFcntl, auxVars, clock, storeVars, lockVars, pc, started, max_workers, results, all_new_items,
                 error_rows, summary, ret, outcome, histVars>>

\* a mutant of AfterFetch: an empty list is a clean result whatever last_error says
AfterFetchIgnoresLastError(t, o) ==
  IF o.raised # None
    THEN [t EXCEPT !.st = "raised", !.fetched = "raised", !.exc = o.raised]
  ELSE IF o.ids = <<>>
    THEN [t EXCEPT !.st = "done", !.fetched = "empty", !.last_error = o.last_error]
  ELSE [t EXCEPT !.st = "running", !.fetched = "items", !.ids = o.ids,
                 !.last_error = o.last_error]

\* what _fetch_subscription does with the outcome of scraper.fetch_items(url):
\* the adapter's exception propagates; an empty list raises
\* RuntimeError(last_error) when an error was recorded and returns [] otherwise
AfterFetch(t, o) ==
  IF o.raised # None
    THEN [t EXCEPT !.st = "raised", !.fetched = "raised", !.exc = o.raised]
  ELSE IF o.ids = <<>>
    THEN IF o.last_error # None
           THEN [t EXCEPT !.st = "raised", !.fetched = "empty",
                          !.exc = o.last_error, !.last_error = o.last_error]
           ELSE [t EXCEPT !.st = "done", !.fetched = "empty"]
  ELSE [t EXCEPT !.st = "running", !.fetched = "items", !.ids = o.ids,
                 !.last_error = o.last_error]

\* _fetch_subscription up to the item loop: fetch_items, the check of an empty
\* list, and for a non-empty list the back-fill of the title from the first item
Fetch(p, i, o) ==
  /\ pc[p] \in {"collecting", "interrupted", "abandoned"}
  /\ i \in TaskIds(p)
  /\ tasks[p][i].st = "fetching"
  /\ tasks[p][i].sub.url > 0 \/ o.last_error = "Cannot extract id"
  /\ LET t == tasks[p][i]
         channel_name == CleanChannelName(RawItem(t.sub, o.ids[1]).metadata.channel)
     IN
       /\ tasks' = [tasks EXCEPT ![p][i] = AfterFetch(t, o)]
       /\ subscriptions' =
            IF o.raised = None /\ o.ids # <<>> /\ channel_name # <<>>
              THEN update_subscription_title(subscriptions, t.sub.id, channel_name)
              ELSE subscriptions
  /\ UNCHANGED <<hasFcntl, auxVars, clock, items, lockVars, pc, started,
                 max_workers, results, all_new_items, error_rows, summary, ret,
                 outcome, histVars>>

\* the item loop's fast path: if self.db.item_exists(item_id): continue
CheckExists(p, i) ==
  /\ pc[p] \in {"collecting", "interrupted", "abandoned"}
  /\ i \in TaskIds(p)
  /\ tasks[p][i].st = "running"
  /\ ~tasks[p][i].chk
  /\ LET t == tasks[p][i]
         raw == RawItem(t.sub, t.ids[t.idx])
     IN tasks' = [tasks EXCEPT ![p][i] =
                    IF item_exists(items, raw.item_id)
                      THEN SkipExisting(t)
                      ELSE [t EXCEPT !.chk = TRUE]]
  /\ UNCHANGED <<hasFcntl, auxVars, clock, storeVars, lockVars, pc, started, max_workers, results, all_new_items,
                 error_rows, summary, ret, outcome, histVars>>

\* a mutant of NewItemsAfter: the item is counted whatever add_item returned
NewItemsAfterAlways(new, item, added) == Append(new, item)

\* if added: new_items.append(item)
NewItemsAfter(new, item, added) == IF added THEN Append(new, item) ELSE new

\* the rest of the loop body: classify (an exception keeps the default label),
\* add_item, and new_items.append(item) when the insert created the row
Insert(p, i) ==
  /\ pc[p] \in {"collecting", "interrupted", "abandoned"}
  /\ i \in TaskIds(p)
  /\ tasks[p][i].st = "running"
  /\ tasks[p][i].chk
  /\ LET t == tasks[p][i]
         raw == RawItem(t.sub, t.ids[t.idx])
         category == CategoryFor(use_classification, classify_item(raw.title))
         r == add_item(items, raw, t.sub.id, category, clock)
         item == [item_id |-> raw.item_id, title |-> raw.title, category |-> category]
     IN /\ items' = r.rows
        /\ tasks' = [tasks EXCEPT ![p][i] =
                       Advance([t EXCEPT
                          !.new = NewItemsAfter(t.new, item, r.added),
                          !.calls = Append(t.calls, [item_id |-> raw.item_id,
                                                     added |-> r.added])])]
        /\ addCalled' = addCalled \cup {raw.item_id}
        /\ addTrue' = [addTrue EXCEPT ![raw.item_id] = IF r.added THEN @ + 1 ELSE @]
        /\ created' = [created EXCEPT ![p] = IF r.added THEN @ + 1 ELSE @]
  /\ UNCHANGED <<hasFcntl, auxVars, clock, subscriptions, lockVars, pc, started, max_workers, results, all_new_items,
                 error_rows, summary, ret, outcome>>

\* a mutant of HandleFuture: the except branch starts the item list afresh
HandleFutureErrorResetsItems(st, sub, t) ==
  IF t.st = "done"
    THEN [st EXCEPT !.results = (sub.id :> [count |-> Len(t.new), error |-> None]) @@ st.results,
                    !.all_new_items = st.all_new_items \o t.new,
                    !.subs = update_subscription_timestamp(st.subs, sub.id, st.now)]
    ELSE [st EXCEPT !.results = (sub.id :> [count |-> 0, error |-> t.exc]) @@ st.results,
                    !.all_new_items = <<>>,
                    !.error_rows = Append(st.error_rows,
                       [platform |-> sub.platform, url |-> sub.url, error |-> t.exc])]

\* a mutant of HandleFuture: error_rows keeps only the latest failure
HandleFutureKeepsLastError(st, sub, t) ==
  IF t.st = "done"
    THEN [st EXCEPT !.results = (sub.id :> [count |-> Len(t.new), error |-> None]) @@ st.results,
                    !.all_new_items = st.all_new_items \o t.new,
                    !.subs = update_subscription_timestamp(st.subs, sub.id, st.now)]
    ELSE [st EXCEPT !.results = (sub.id :> [count |-> 0, error |-> t.exc]) @@ st.results,
                    !.error_rows = <<[platform |-> sub.platform, url |-> sub.url,
                                      error |-> t.exc]>>]

\* a mutant of HandleFuture: the timestamp is advanced in the except branch too
HandleFutureStampAlways(st, sub, t) ==
  IF t.st = "done"
    THEN [st EXCEPT !.results = (sub.id :> [count |-> Len(t.new), error |-> None]) @@ st.results,
                    !.all_new_items = st.all_new_items \o t.new,
                    !.subs = update_subscription_timestamp(st.subs, sub.id, st.now)]
    ELSE [st EXCEPT !.results = (sub.id :> [count |-> 0, error |-> t.exc]) @@ st.results,
                    !.error_rows = Append(st.error_rows,
                       [platform |-> sub.platform, url |-> sub.url, error |-> t.exc]),
                    !.subs = update_subscription_timestamp(st.subs, sub.id, st.now)]

\* the body of the as_completed loop for one finished future: future.result()
\* returns new_items, or raises and the except branch records the error
HandleFuture(st, sub, t) ==
  IF t.st = "done"
    THEN [st EXCEPT !.results = (sub.id :> [count |-> Len(t.new), error |-> None]) @@ st.results,
                    !.all_new_items = st.all_new_items \o t.new,
                    !.subs = update_subscription_timestamp(st.subs, sub.id, st.now)]
    ELSE [st EXCEPT !.results = (sub.id :> [count |-> 0, error |-> t.exc]) @@ st.results,
                    !.error_rows = Append(st.error_rows,
                       [platform |-> sub.platform, url |-> sub.url, error |-> t.exc])]

\* as_completed yields a finished future that was not yet handled
Collect(p, i) ==
  /\ pc[p] = "collecting"
  /\ i \in TaskIds(p)
  /\ Finished(tasks[p][i])
  /\ tasks[p][i].sub.id \notin Collected(p)
  /\ LET st == [results |-> results[p], all_new_items |-> all_new_items[p],
                error_rows |-> error_rows[p], subs |-> subscriptions, now |-> clock]
         nx == HandleFuture(st, tasks[p][i].sub, tasks[p][i])
     IN /\ results' = [results EXCEPT ![p] = nx.results]
        /\ all_new_items' = [all_new_items EXCEPT ![p] = nx.all_new_items]
        /\ error_rows' = [error_rows EXCEPT ![p] = nx.error_rows]
        /\ subscriptions' = nx.subs
  /\ UNCHANGED <<hasFcntl, auxVars, clock, items, lockVars, pc, started,
                 max_workers, tasks, summary, ret, outcome, histVars>>

RECURSIVE SumCounts(_, _)
\* sum(r[0] for r in results.values())
SumCounts(res, ids) ==
  IF ids = {} THEN 0
  ELSE LET s == CHOOSE x \in ids : TRUE
       IN res[s].count + SumCounts(res, ids \ {s})

\* sum(1 for r in results.values() if r[1])
CountErrors(res) == Cardinality({s \in DOMAIN res : res[s].error # None})

\* as_completed is exhausted and the ThreadPoolExecutor block ends: the totals
\* and the error summary are printed
EndCollect(p) ==
  /\ pc[p] = "collecting"
  /\ \A i \in TaskIds(p) : tasks[p][i].sub.id \in Collected(p)
  /\ pc' = [pc EXCEPT ![p] = "finalizing"]
  /\ summary' = [summary EXCEPT ![p] =
                   <<[total_new |-> SumCounts(results[p], DOMAIN results[p]),
                      errors |-> CountErrors(results[p]),
                      error_summary |-> error_rows[p]]>>]
  /\ UNCHANGED <<hasFcntl, auxVars, clock, storeVars, lockVars, started,
                 max_workers, tasks, results, all_new_items, error_rows, ret,
                 outcome, histVars>>

\* a mutant of ReturnValue: total_subscriptions counts the new items
ReturnValueCountsItems(new_items, snapshot_len) ==
  [new_items |-> new_items, total_subscriptions |-> Len(new_items),
   feed_paths |-> "feed_paths"]

\* the value update_all returns after the outputs were generated
ReturnValue(new_items, snapshot_len) ==
  [new_items |-> new_items, total_subscriptions |-> snapshot_len,
   feed_paths |-> "feed_paths"]

\* feeds, OPML and the reports are written by the report collaborators, which
\* either succeed, and update_all returns, or raise out of update_all
Finalize(p, ok) ==
  /\ pc[p] = "finalizing"
  /\ IF ok
       THEN /\ ret' = [ret EXCEPT ![p] = ReturnValue(all_new_items[p], Len(tasks[p]))]
            /\ pc' = [pc EXCEPT ![p] = "returned"]
       ELSE /\ pc' = [pc EXCEPT ![p] = "raised"]
            /\ UNCHANGED ret
  /\ UNCHANGED <<hasFcntl, auxVars, clock, storeVars, lockVars, started,
                 max_workers, tasks, results, all_new_items, error_rows, summary,
                 outcome, histVars>>

\* KeyboardInterrupt reaches the main thread inside the guarded block; inside
\* the ThreadPoolExecutor block it propagates only after every future finished
Interrupt(p) ==
  /\ pc[p] \in {"locked", "collecting", "finalizing"}
  /\ pc' = [pc EXCEPT ![p] = "interrupted"]
  /\ results' = [results EXCEPT ![p] = NoResults]
  /\ all_new_items' = [all_new_items EXCEPT ![p] = <<>>]
  /\ error_rows' = [error_rows EXCEPT ![p] = <<>>]
  /\ summary' = [summary EXCEPT ![p] = <<>>]
  /\ UNCHANGED <<hasFcntl, auxVars, clock, storeVars, lockVars, started,
                 max_workers, tasks, ret, outcome, histVars>>

\* a second KeyboardInterrupt reaches the main thread while the first one is
\* held up in ThreadPoolExecutor.__exit__, which is joining the pool threads
\* (shutdown(wait=True)): the join is abandoned, the finally clause of
\* update_lock unlocks, and main() goes to sys.exit(1) while the pool threads
\* are still working through the queue
InterruptAgain(p) ==
  /\ pc[p] = "interrupted"
  /\ ~AllFinished(p)
  /\ flockHeld' = Unlock(flockHeld, p, pc[p])
  /\ pc' = [pc EXCEPT ![p] = "abandoned"]
  /\ outcome' = [outcome EXCEPT ![p] = "cancelled"]
  /\ UNCHANGED <<hasFcntl, auxVars, clock, storeVars, lockFile, started, max_workers,
                 tasks, results, all_new_items, error_rows, summary, ret, histVars>>

\* the process of an abandoned run ends: the interpreter may wait for the
\* pool threads or end with a task unfinished (a join that was interrupted
\* can leave its thread marked as stopped)
ExitAbandoned(p) ==
  /\ pc[p] = "abandoned"
  /\ pc' = [pc EXCEPT ![p] = "exited"]
  /\ outcome' = [outcome EXCEPT ![p] = None]
  /\ started' = [started EXCEPT ![p] = NULL]
  /\ max_workers' = [max_workers EXCEPT ![p] = 1]
  /\ tasks' = [tasks EXCEPT ![p] = NoTasks]
  /\ created' = [created EXCEPT ![p] = 0]
  /\ UNCHANGED <<hasFcntl, auxVars, clock, storeVars, lockVars, results,
                 all_new_items, error_rows, summary, ret, addCalled, addTrue>>

\* ------------------------------------------------------------------ --add URL
RECURSIVE StoreNewItems(_, _, _, _)
\* the item loop of _fetch_subscription run by one thread from start to end:
\* the rows after it, the keys add_item was called with and those it created
StoreNewItems(acc, sub, ids, now) ==
  IF ids = <<>> THEN acc
  ELSE LET raw == RawItem(sub, Head(ids))
           category == CategoryFor(use_classification, classify_item(raw.title))
           r == add_item(acc.rows, raw, sub.id, category, now)
       IN IF item_exists(acc.rows, raw.item_id)
            THEN StoreNewItems(acc, sub, Tail(ids), now)
            ELSE StoreNewItems([rows |-> r.rows,
                                called |-> acc.called \cup {raw.item_id},
                                made |-> IF r.added THEN acc.made \cup {raw.item_id}
                                                    ELSE acc.made],
                               sub, Tail(ids), now)

\* the URLs `--add` is given: a positive number is the URL of a channel or
\* user page, its negative a URL of the same site that names no channel or
\* user (the site's front page), 0 a URL of no supported site
AddUrls == (0 - NumSubs)..NumSubs

\* ScraperFactory.detect_platform: the site is recognised by its domain
detect_platform(url) == IF url = 0 THEN "unknown" ELSE PlatformOf(url)

\* extract_channel_id / extract_user_id finds an id in the URL
Identifiable(url) == url > 0

\* what fetch_items does when the id cannot be extracted from the URL
CannotExtract == [raised |-> None, ids |-> <<>>, last_error |-> "Cannot extract id"]

\* RSSEngine.add_subscription up to the initial fetch: the platform is detected
\* from the URL, and an unsupported one returns False; otherwise the row is
\* inserted with the placeholder title, or the existing row's id is
\* returned; the update lock is not taken
EngineAdd(url) ==
  /\ adder.pc = "none"
  /\ adder.count < MaxAdds
  /\ LET platform == detect_platform(url)
         r == add_subscription(subscriptions, url, platform,
                               PlaceholderTitle(platform),
                               PlaceholderDescription(platform))
     IN IF platform = "unknown"
          THEN /\ UNCHANGED subscriptions
               /\ adder' = [pc |-> "none", count |-> adder.count + 1,
                             url |-> url, result |-> "False"]
          ELSE /\ subscriptions' = r.subs
               /\ adder' = [pc |-> "fetching", count |-> adder.count + 1,
                             id |-> r.id, url |-> url, platform |-> platform]
  /\ UNCHANGED <<hasFcntl, clock, items, lockVars, runVars, histVars, chainVars, callVars, pureVars>>

\* the initial fetch of RSSEngine.add_subscription: _fetch_subscription for
\* the new row; an exception is printed and the handler returns True all the same
EngineAddFetch(o) ==
  /\ adder.pc = "fetching"
  /\ IF Identifiable(adder.url) THEN o \in FetchOutcomes ELSE o = CannotExtract
  /\ LET sub == [id |-> adder.id, url |-> adder.url, platform |-> adder.platform]
         t == AfterFetch(NewTask(sub), o)
         channel_name == CleanChannelName(RawItem(sub, o.ids[1]).metadata.channel)
         done == StoreNewItems([rows |-> items, called |-> {}, made |-> {}],
                               sub, t.ids, clock)
     IN IF t.st = "running"
          THEN /\ subscriptions' =
                    IF channel_name # <<>>
                      THEN update_subscription_title(subscriptions, sub.id, channel_name)
                      ELSE subscriptions
               /\ items' = done.rows
               /\ addCalled' = addCalled \cup done.called
               /\ addTrue' = [k \in AllKeys |->
                                IF k \in done.made THEN addTrue[k] + 1 ELSE addTrue[k]]
          ELSE UNCHANGED <<subscriptions, items, addCalled, addTrue>>
  /\ adder' = [pc |-> "none", count |-> adder.count, url |-> adder.url,
                result |-> "True"]
  /\ UNCHANGED <<hasFcntl, clock, lockVars, runVars, created, chainVars, callVars, pureVars>>

Next ==
  \/ \E p \in Procs : Acquire(p)
  \/ \E p \in Procs : AcquireFail(p)
  \/ \E p \in Procs, env \in WorkerEnvs : FanOut(p, env)
  \/ \E p \in Procs, i \in SubIds : StartTask(p, i)
  \/ \E p \in Procs, i \in SubIds, o \in FetchOutcomes : Fetch(p, i, o)
  \/ \E p \in Procs, i \in SubIds : CheckExists(p, i)
  \/ \E p \in Procs, i \in SubIds : Insert(p, i)
  \/ \E p \in Procs, i \in SubIds : Collect(p, i)
  \/ \E p \in Procs : EndCollect(p)
  \/ \E p \in Procs, ok \in BOOLEAN : Finalize(p, ok)
  \/ \E p \in Procs : Interrupt(p)
  \/ \E p \in Procs : Release(p)
  \/ \E p \in Procs : Exit(p)

Spec == Init /\ [][Next]_vars

SpecPortable == InitPortable /\ [][Next]_vars


\* one update run, on a platform with fcntl, while `--add URL` invocations
\* add subscriptions to the store
InitSnapshot == hasFcntl = TRUE /\ \E n \in 0..PortableSubs : InitStore(n)

TheRun == 1

NextSnapshot ==
  \/ Acquire(TheRun)
  \/ \E env \in WorkerEnvs : FanOut(TheRun, env)
  \/ \E i \in SubIds : StartTask(TheRun, i)
  \/ \E i \in SubIds, o \in FetchOutcomes \cup {CannotExtract} : Fetch(TheRun, i, o)
  \/ \E i \in SubIds : CheckExists(TheRun, i)
  \/ \E i \in SubIds : Insert(TheRun, i)
  \/ \E i \in SubIds : Collect(TheRun, i)
  \/ EndCollect(TheRun)
  \/ \E ok \in BOOLEAN : Finalize(TheRun, ok)
  \/ Interrupt(TheRun)
  \/ Release(TheRun)
  \/ Exit(TheRun)
  \/ \E url \in AddUrls : EngineAdd(url)
  \/ \E o \in FetchOutcomes \cup {CannotExtract} : EngineAddFetch(o)

SpecSnapshot == InitSnapshot /\ [][NextSnapshot]_vars

\* one update run alone, on a platform with fcntl
NextRun ==
  \/ Acquire(TheRun)
  \/ \E env \in WorkerEnvs : FanOut(TheRun, env)
  \/ \E i \in SubIds : StartTask(TheRun, i)
  \/ \E i \in SubIds, o \in FetchOutcomes : Fetch(TheRun, i, o)
  \/ \E i \in SubIds : CheckExists(TheRun, i)
  \/ \E i \in SubIds : Insert(TheRun, i)
  \/ \E i \in SubIds : Collect(TheRun, i)
  \/ EndCollect(TheRun)
  \/ \E ok \in BOOLEAN : Finalize(TheRun, ok)
  \/ Interrupt(TheRun)
  \/ Release(TheRun)
  \/ Exit(TheRun)

\* every step of the run that can be taken is taken in the end: the pool
\* threads and the main thread are scheduled, scraper.fetch_items and
\* classify_item return or raise, the output writers return or raise.  When
\* the run is invoked and whether an interrupt arrives is up to the user.
Fairness ==
  /\ WF_vars(\E env \in WorkerEnvs : FanOut(TheRun, env))
  /\ WF_vars(\E i \in SubIds : StartTask(TheRun, i))
  /\ WF_vars(\E i \in SubIds, o \in FetchOutcomes : Fetch(TheRun, i, o))
  /\ WF_vars(\E i \in SubIds : CheckExists(TheRun, i))
  /\ WF_vars(\E i \in SubIds : Insert(TheRun, i))
  /\ WF_vars(\E i \in SubIds : Collect(TheRun, i))
  /\ WF_vars(EndCollect(TheRun))
  /\ WF_vars(\E ok \in BOOLEAN : Finalize(TheRun, ok))
  /\ WF_vars(Release(TheRun))
  /\ WF_vars(Exit(TheRun))

SpecFair == Init /\ [][NextRun]_vars /\ Fairness

\* one update run whose user may press Ctrl-C more than once, and other
\* invocations followed up to their attempt to take the lock
NextInterrupts ==
  \/ NextRun
  \/ InterruptAgain(TheRun)
  \/ ExitAbandoned(TheRun)
  \/ \E p \in Procs \ {TheRun} : Acquire(p)
  \/ \E p \in Procs \ {TheRun} : AcquireFail(p)

SpecInterrupts == Init /\ [][NextInterrupts]_vars

\* ------------------------------------------------------------------ adapters
\* what the RSSHub route of a subscription puts in the GUID of an item: the
\* item's link, or its native id
FeedGuids == {"link", "id"}

\* the item_id a path builds for item n: the platform prefix, then the
\* native id itself (yt-dlp) or 12 hex digits of the MD5 of a text, which is
\* the link (Atom), the GUID (RSS 2.0) or the native id (JSON paths); two
\* texts are taken to hash alike only when they are equal
item_id(platform, path, n, guid) ==
  CASE platform = "youtube" /\ path = "primary" ->
         [platform |-> platform, md5 |-> FALSE, text |-> <<"id", n>>]
    [] platform = "youtube" /\ path = "fallback" ->
         [platform |-> platform, md5 |-> TRUE, text |-> <<"link", n>>]
    [] platform \in {"xiaohongshu", "twitter", "zsxq"} /\ path = "primary" ->
         [platform |-> platform, md5 |-> TRUE, text |-> <<"id", n>>]
    [] OTHER ->
         [platform |-> platform, md5 |-> TRUE, text |-> <<guid, n>>]

\* ScraperFactory.get_scraper: a new instance; the Xiaohongshu adapter loads
\* the browser cookies, which may be missing; `guid` is the convention of
\* the feed the instance will read
GetScraper(platform, cookies, guid) ==
  /\ scraper = NoScraper
  /\ platform = "xiaohongshu" \/ cookies
  /\ scraper' = [pc |-> "idle", platform |-> platform, cookies |-> cookies,
                  guid |-> guid,
                  last_error |-> None, pending |-> None, items |-> <<>>,
                  fallbacks |-> 0, primary |-> None, fallback |-> None]
  /\ UNCHANGED <<hasFcntl, clock, storeVars, lockVars, runVars, histVars, adder, scraped, callVars, pureVars>>

\* fetch_items up to its first path: last_error is reset; a URL the id cannot
\* be extracted from returns [] with an error; Xiaohongshu without cookies
\* goes to RSSHub at once
BeginFetch(url_ok) ==
  /\ scraper # NoScraper
  /\ scraper.pc = "idle"
  /\ LET s == [scraper EXCEPT !.last_error = None, !.pending = None, !.items = <<>>,
                              !.fallbacks = 0, !.primary = None, !.fallback = None]
     IN scraper' =
          IF ~url_ok
            THEN [s EXCEPT !.pc = "returned", !.last_error = "Cannot extract id"]
          ELSE IF s.platform = "xiaohongshu" /\ ~s.cookies
            THEN [s EXCEPT !.pc = "fallback"]
          ELSE [s EXCEPT !.pc = "primary"]
  /\ UNCHANGED <<hasFcntl, clock, storeVars, lockVars, runVars, histVars, adder, scraped, callVars, pureVars>>

\* the one item a path returns: its item_id, and the item it denotes
Scraped(platform, path, n, guid) ==
  <<[item_id |-> item_id(platform, path, n, guid), of |-> n]>>

\* the primary path meets `kind`; with items it returns item n
PrimaryStep(kind, n) ==
  /\ scraper # NoScraper
  /\ scraper.pc = "primary"
  /\ LET r == PrimaryPath(scraper.platform, kind)
     IN scraper' =
          [scraper EXCEPT !.pc = IF r.go = "fallback" THEN "fallback" ELSE "returned",
                          !.primary = kind,
                          !.last_error = r.last_error,
                          !.pending = r.pending,
                          !.items = IF kind = "items"
                                      THEN Scraped(scraper.platform, "primary", n, scraper.guid)
                                      ELSE <<>>]
  /\ UNCHANGED <<hasFcntl, clock, storeVars, lockVars, runVars, histVars, adder, scraped, callVars, pureVars>>

\* the fallback path is invoked and meets `kind`; fetch_items returns
FallbackStep(kind, n) ==
  /\ scraper # NoScraper
  /\ scraper.pc = "fallback"
  /\ scraper' =
       [scraper EXCEPT !.pc = "returned",
                       !.fallback = kind,
                       !.fallbacks = scraper.fallbacks + 1,
                       !.last_error = FallbackPath(scraper.platform, scraper.last_error,
                                                   scraper.pending, kind),
                       !.items = IF kind = "items"
                                   THEN Scraped(scraper.platform, "fallback", n, scraper.guid)
                                   ELSE <<>>]
  /\ UNCHANGED <<hasFcntl, clock, storeVars, lockVars, runVars, histVars, adder, scraped, callVars, pureVars>>

\* the caller takes the returned list and stores every item under its
\* item_id (a stored item_id is not stored again); the instance is ready for
\* the next fetch
StoreScraped ==
  /\ scraper # NoScraper
  /\ scraper.pc = "returned"
  /\ scraped' = scraped \cup {scraper.items[k] : k \in 1..Len(scraper.items)}
  /\ scraper' = [scraper EXCEPT !.pc = "idle"]
  /\ UNCHANGED <<hasFcntl, clock, storeVars, lockVars, runVars, histVars, adder, callVars, pureVars>>

NextAdapters ==
  \/ \E platform \in Platforms, cookies \in BOOLEAN, guid \in FeedGuids :
       GetScraper(platform, cookies, guid)
  \/ \E url_ok \in BOOLEAN : BeginFetch(url_ok)
  \/ \E kind \in PathOutcomes, n \in NativeIds : PrimaryStep(kind, n)
  \/ \E kind \in PathOutcomes, n \in NativeIds : FallbackStep(kind, n)
  \/ StoreScraped

\* one adapter instance fetching again and again, nothing else running
SpecAdapters == Init /\ [][NextAdapters]_vars

\* ------------------------------------------------------------------ store calls
\* a title somebody typed, which the system did not generate
UserTitle == <<"My", "Subscription", "picks">>
UserDescription == <<"notes">>

\* the rows of the table with this url (url is UNIQUE)
RowsWithUrl(subs, url) == {i \in 1..Len(subs) : subs[i].url = url}

\* RSSDatabase.add_subscription up to the end of its INSERT: the new row's
\* id is returned, or the INSERT raised IntegrityError and the handler goes
\* on to its SELECT
StoreInsert(c, url, platform, title, description) ==
  /\ caller.call[c].pc = "idle"
  /\ LET r == add_subscription(subscriptions, url, platform, title, description)
     IN IF RowsWithUrl(subscriptions, url) = {}
          THEN /\ subscriptions' = r.subs
               /\ caller' = [call |-> [caller.call EXCEPT
                                         ![c] = [pc |-> "returned", url |-> url, id |-> r.id]],
                             ids |-> [caller.ids EXCEPT ![url] = @ \cup {r.id}]]
          ELSE /\ UNCHANGED subscriptions
               /\ caller' = [caller EXCEPT
                               !.call[c] = [pc |-> "conflict", url |-> url,
                                            platform |-> platform, title |-> title,
                                            description |-> description]]
  /\ UNCHANGED <<hasFcntl, clock, items, lockVars, runVars, histVars, adder,
                 chainVars, http, pureVars>>

\* the except branch: SELECT id FROM subscriptions WHERE url = ?; fetchone()
\* is None, and subscripting it raises, when no row has the url
StoreSelect(c) ==
  /\ caller.call[c].pc = "conflict"
  /\ LET a == caller.call[c]
         r == add_subscription(subscriptions, a.url, a.platform, a.title, a.description)
     IN IF RowsWithUrl(subscriptions, a.url) = {}
          THEN /\ UNCHANGED subscriptions
               /\ caller' = [caller EXCEPT !.call[c] = [pc |-> "raised", url |-> a.url]]
          ELSE /\ subscriptions' = r.subs
               /\ caller' = [call |-> [caller.call EXCEPT
                                         ![c] = [pc |-> "returned", url |-> a.url, id |-> r.id]],
                             ids |-> [caller.ids EXCEPT ![a.url] = @ \cup {r.id}]]
  /\ UNCHANGED <<hasFcntl, clock, items, lockVars, runVars, histVars, adder,
                 chainVars, http, pureVars>>

\* the caller has its id and may call again
StoreReturn(c) ==
  /\ caller.call[c].pc = "returned"
  /\ caller' = [caller EXCEPT !.call[c] = [pc |-> "idle"]]
  /\ UNCHANGED <<hasFcntl, clock, storeVars, lockVars, runVars, histVars, adder,
                 chainVars, http, pureVars>>

\* RSSDatabase.update_subscription_title called with a channel name, as the
\* back-fill of _fetch_subscription does
StoreBackfill(sid, name) ==
  /\ sid \in 1..Len(subscriptions)
  /\ subscriptions' = update_subscription_title(subscriptions, sid, name)
  /\ subscriptions' # subscriptions
  /\ UNCHANGED <<hasFcntl, clock, items, lockVars, runVars, histVars, auxVars>>

\* the channel names a back-fill is called with
ChannelNames == {<<"Channel">>}

NextStore ==
  \/ \E c \in Callers, url \in SubIds, platform \in {"youtube", "bilibili"} :
       \E title \in {PlaceholderTitle(platform), UserTitle} :
         StoreInsert(c, url, platform, title,
                     IF title = UserTitle THEN UserDescription
                     ELSE PlaceholderDescription(platform))
  \/ \E c \in Callers : StoreSelect(c)
  \/ \E c \in Callers : StoreReturn(c)
  \/ \E sid \in SubIds, name \in ChannelNames : StoreBackfill(sid, name)

\* callers of the store adding subscriptions while titles are back-filled
SpecStore == Init /\ [][NextStore]_vars

\* RSSDatabase.add_item called by a client of the store with a subscription
\* id of its choosing: _connect never sets PRAGMA foreign_keys, so the
\* FOREIGN KEY clause of the items table is not enforced by the INSERT
StoreAddItem(sid, n) ==
  /\ items' = add_item(items, RawItem([platform |-> "youtube", id |-> sid], n),
                        sid, "uncategorized", clock).rows
  /\ items' # items
  /\ UNCHANGED <<hasFcntl, clock, subscriptions, lockVars, runVars, histVars, auxVars>>

\* the subscription ids a client can hand to add_item
SubscriptionIdArgs == 1..(NumSubs + 1)

NextItems ==
  \/ NextStore
  \/ \E sid \in SubscriptionIdArgs, n \in NativeIds : StoreAddItem(sid, n)

\* clients of the store adding subscriptions and items
SpecItems == Init /\ [][NextItems]_vars

\* ------------------------------------------------------- date normalisation
\* the strings _normalize_date can be handed
DateStrings ==
  {[shape |-> "empty", t |-> 0]} \cup
  {[shape |-> sh, t |-> t] : sh \in {"iso", "iso_space", "rfc822", "dateonly", "text"},
                            t \in 0..NumKeys}

\* _normalize_date(date_str) on a string from outside; now is datetime.now()
NormalizeDate(d, now) ==
  /\ dates = <<>>
  /\ dates' = <<d, normalize_date(d, now)>>
  /\ UNCHANGED <<hasFcntl, clock, storeVars, lockVars, runVars, histVars,
                 adder, chainVars, callVars, fill, lateVars>>

\* _normalize_date applied to what it returned
NormalizeAgain(now) ==
  /\ Len(dates) = 2
  /\ dates' = Append(dates, normalize_date(dates[2], now))
  /\ UNCHANGED <<hasFcntl, clock, storeVars, lockVars, runVars, histVars,
                 adder, chainVars, callVars, fill, lateVars>>

NextDates ==
  \/ \E d \in DateStrings, now \in 0..NumProcs : NormalizeDate(d, now)
  \/ \E now \in 0..NumProcs : NormalizeAgain(now)

SpecDates == Init /\ [][NextDates]_vars

\* ------------------------------------------------------- title back-fill
\* the names an item's metadata can carry under _channel_title or channel:
\* none, a name, a decorated name, and a decoration with nothing else
ItemChannels == {<<>>, <<"Chan">>, <<"Chan", "weibo-suffix">>, <<"bilibili-space">>}

\* the lists fetch_items can return: entries of a feed, each with its own name
ChannelFeeds ==
  UNION {{[a \in 1..Len(q) |-> [n |-> q[a], channel |-> names[a]]] :
            names \in [1..Len(q) -> ItemChannels]} : q \in FeedSeqs}

\* a mutant of first_meta: the first item that carries a name is consulted
first_meta_any(fetched) ==
  LET named == {a \in 1..Len(fetched) : fetched[a].channel # <<>>}
  IN IF named = {} THEN <<>>
     ELSE fetched[CHOOSE a \in named : \A b \in named : a <= b].channel

\* first_meta = items[0].get("metadata", {}); _channel_title or channel or ""
first_meta(fetched) == fetched[1].channel

\* _fetch_subscription from fetch_items returning a non-empty list up to the
\* item loop: the name of the first item is cleaned and, when something is
\* left, update_subscription_title is called
FillFetch(sid, fetched) ==
  /\ fill = NoFill
  /\ sid \in 1..Len(subscriptions)
  /\ LET channel_name == CleanChannelName(first_meta(fetched)) IN
       /\ subscriptions' = IF channel_name # <<>>
                              THEN update_subscription_title(subscriptions, sid, channel_name)
                              ELSE subscriptions
       /\ fill' = [pc |-> "loop", sub |-> subscriptions[sid], fetched |-> fetched,
                    idx |-> 1,
                    asked |-> IF channel_name # <<>>
                                THEN <<[title |-> channel_name, processed |-> 0]>>
                                ELSE <<>>]
  /\ UNCHANGED <<hasFcntl, clock, items, lockVars, runVars, histVars,
                 adder, chainVars, callVars, dates, lateVars>>

\* one turn of the item loop: a stored item is skipped, a new one is
\* classified and inserted; after the last item new_items is returned
FillItem ==
  /\ fill.pc = "loop"
  /\ LET e == fill.fetched[fill.idx]
         raw == [RawItem(fill.sub, e.n) EXCEPT !.metadata = [channel |-> e.channel]]
         category == CategoryFor(use_classification, classify_item(raw.title))
     IN items' = IF item_exists(items, raw.item_id) THEN items
                 ELSE add_item(items, raw, fill.sub.id, category, clock).rows
  /\ fill' = [fill EXCEPT !.idx = @ + 1,
                          !.pc = IF fill.idx = Len(fill.fetched) THEN "returned" ELSE "loop"]
  /\ UNCHANGED <<hasFcntl, clock, subscriptions, lockVars, runVars, histVars,
                 adder, chainVars, callVars, dates, lateVars>>

NextFill ==
  \/ \E sid \in SubIds, fetched \in ChannelFeeds : FillFetch(sid, fetched)
  \/ FillItem

\* one task of a run from its fetch to its return
SpecFill == Init /\ [][NextFill]_vars

\* ------------------------------------------------------- update report
\* instants are clock ticks, DayLen of them to a day; a timestamp text is its
\* date, the separator after the date, and the time of day
\* SQLite CURRENT_TIMESTAMP: 'YYYY-MM-DD HH:MM:SS' in UTC
CURRENT_TIMESTAMP(t) == [date |-> t \div DayLen, sep |-> " ", time |-> t % DayLen]

\* datetime.now().isoformat(): 'YYYY-MM-DDTHH:MM:SS.ffffff' in local time, which
\* is utcoffset ticks ahead of UTC
now_isoformat(t, utcoffset) ==
  [date |-> (t + utcoffset) \div DayLen, sep |-> "T", time |-> (t + utcoffset) % DayLen]

\* the offsets of local time: behind UTC, UTC, ahead of UTC
UtcOffsets == {0 - 1, 0, 1}

\* the order of the characters that follow the date: ' ' is 0x20, 'T' is 0x54
SepRank(sep) == IF sep = " " THEN 0 ELSE 1

\* a >= b between two timestamp texts, compared as SQLite compares TEXT values
TextGeq(a, b) ==
  \/ a.date > b.date
  \/ /\ a.date = b.date
     /\ \/ SepRank(a.sep) > SepRank(b.sep)
        \/ SepRank(a.sep) = SepRank(b.sep) /\ a.time >= b.time

\* SELECT i.* ... FROM items i JOIN subscriptions s ON i.subscription_id = s.id
\* WHERE i.fetched_at >= ?: the rows selected (their order is left out)
get_new_items_since(rows, subs, since) ==
  {r \in 1..Len(rows) :
     /\ \E j \in 1..Len(subs) : subs[j].id = rows[r].subscription_id
     /\ TextGeq(CURRENT_TIMESTAMP(rows[r].fetched_at), since)}

\* time passes
ReportTick ==
  /\ clock < MaxTicks
  /\ clock' = clock + 1
  /\ UNCHANGED <<hasFcntl, storeVars, lockVars, runVars, histVars, auxVars>>

\* the pub_date strings of the items stored in this scenario
PubDates ==
  {[shape |-> "empty", t |-> 0]} \cup
  {[shape |-> sh, t |-> t] : sh \in {"iso", "iso_space", "rfc822", "text"}, t \in 0..1}

\* add_item for an item of subscription sid, by an earlier run or by this one
ReportAddItem(sid, n, d) ==
  /\ report.pc \in {"none", "running"}
  /\ sid \in 1..Len(subscriptions)
  /\ LET raw == [RawItem(subscriptions[sid], n) EXCEPT !.pub_date = d]
         category == CategoryFor(use_classification, classify_item(raw.title))
     IN items' = add_item(items, raw, sid, category, clock).rows
  /\ items' # items
  /\ UNCHANGED <<hasFcntl, clock, subscriptions, lockVars, runVars, histVars, auxVars>>

\* update_all records update_start = datetime.now().isoformat(), later than
\* every row stored before
ReportStart(utcoffset) ==
  /\ report = NoReport
  /\ clock < MaxTicks
  /\ clock' = clock + 1
  /\ report' = [pc |-> "running", utcoffset |-> utcoffset,
                 update_start |-> now_isoformat(clock + 1, utcoffset),
                 before |-> Len(items)]
  /\ UNCHANGED <<hasFcntl, storeVars, lockVars, runVars, histVars,
                 adder, chainVars, callVars, dates, fill, registry, tailVars>>

\* full mode: report_items = self.db.get_new_items_since(update_start)
ReportItems ==
  /\ report.pc = "running"
  /\ report' = [pc |-> "reported", utcoffset |-> report.utcoffset,
                 update_start |-> report.update_start, before |-> report.before,
                 digest |-> FALSE,
                 report_items |-> get_new_items_since(items, subscriptions,
                                                     report.update_start)]
  /\ UNCHANGED <<hasFcntl, clock, storeVars, lockVars, runVars, histVars,
                 adder, chainVars, callVars, dates, fill, registry, tailVars>>

\* a stored pub_date as text: the ISO shapes are a date, 'T' or ' ', and the
\* time; a string _normalize_date stored as it was starts with a letter here
\* ('yesterday'), which sorts after every digit
PubDateGeq(a, b) ==
  IF a.shape = "text" \/ b.shape = "text"
    THEN \/ a.shape = "text" /\ b.shape # "text"
         \/ a.shape = "text" /\ b.shape = "text" /\ a.t >= b.t
    ELSE TextGeq([date |-> a.t \div DayLen, time |-> a.t % DayLen,
                  sep |-> IF a.shape = "iso" THEN "T" ELSE " "],
                 [date |-> b.t \div DayLen, time |-> b.t % DayLen,
                  sep |-> IF b.shape = "iso" THEN "T" ELSE " "])

\* the rows of a subscription
RowsOf(rows, sid) == {r \in 1..Len(rows) : rows[r].subscription_id = sid}

\* SELECT i2.id ... WHERE i2.subscription_id = ? ORDER BY i2.pub_date DESC
\* LIMIT 1: a row of the subscription that no other row sorts after; which one
\* of several with equal pub_date is not specified
LatestCandidates(rows, sid) ==
  {r \in RowsOf(rows, sid) :
     \A q \in RowsOf(rows, sid) : PubDateGeq(rows[r].pub_date, rows[q].pub_date)}

\* the subscriptions the JOIN keeps: those that own a row
Owners(rows, subs) ==
  {sid \in {subs[j].id : j \in 1..Len(subs)} : RowsOf(rows, sid) # {}}

\* digest mode: report_items = self.db.get_latest_per_subscription(); latest
\* is the row the inner SELECT yields for each subscription
ReportDigest(latest) ==
  /\ report.pc = "running"
  /\ latest \in [Owners(items, subscriptions) -> 1..Len(items)]
  /\ \A sid \in DOMAIN latest : latest[sid] \in LatestCandidates(items, sid)
  /\ report' = [pc |-> "reported", utcoffset |-> report.utcoffset,
                 update_start |-> report.update_start, before |-> report.before,
                 digest |-> TRUE,
                 report_items |-> {latest[sid] : sid \in DOMAIN latest}]
  /\ UNCHANGED <<hasFcntl, clock, storeVars, lockVars, runVars, histVars,
                 adder, chainVars, callVars, dates, fill, registry, tailVars>>

NextReport ==
  \/ ReportTick
  \/ \E sid \in SubIds, n \in NativeIds, d \in PubDates : ReportAddItem(sid, n, d)
  \/ \E utcoffset \in UtcOffsets : ReportStart(utcoffset)
  \/ ReportItems
  \/ \E latest \in UNION {[S -> 1..NumKeys] : S \in SUBSET SubIds} : ReportDigest(latest)

\* one run's report step, with items stored before and during the run
SpecReport == Init /\ [][NextReport]_vars

\* ------------------------------------------------------- adapter registry
\* the substrings detect_platform looks for in url.lower(), in the order of
\* its elif chain, each with the tag it returns
DetectRules ==
  <<[any |-> {"bilibili.com"}, tag |-> "bilibili"],
    [any |-> {"xiaohongshu.com", "xhslink.com"}, tag |-> "xiaohongshu"],
    [any |-> {"weibo.com"}, tag |-> "weibo"],
    [any |-> {"youtube.com", "youtu.be"}, tag |-> "youtube"],
    [any |-> {"vimeo.com"}, tag |-> "vimeo"],
    [any |-> {"behance.net"}, tag |-> "behance"],
    [any |-> {"douyin.com"}, tag |-> "douyin"],
    [any |-> {"x.com", "twitter.com"}, tag |-> "twitter"],
    [any |-> {"zsxq.com"}, tag |-> "zsxq"]>>

Domains == UNION {DetectRules[k].any : k \in 1..Len(DetectRules)}

\* a URL is the set of those substrings its lower-cased text contains; URLs
\* with none, one or two of them are considered
Urls == {u \in SUBSET Domains : Cardinality(u) <= 2}

\* ScraperFactory.detect_platform: the tag of the first test that succeeds
DetectPlatform(url_lower) ==
  LET hits == {k \in 1..Len(DetectRules) : DetectRules[k].any \cap url_lower # {}}
  IN IF hits = {} THEN "unknown"
     ELSE DetectRules[CHOOSE k \in hits : \A h \in hits : k <= h].tag

\* the dict of ScraperFactory.get_scraper
Scrapers ==
  [tag \in {"bilibili", "xiaohongshu", "weibo", "youtube", "vimeo", "behance",
            "douyin", "twitter", "zsxq"} |-> <<tag, "Scraper">>]

\* a mutant of get_scraper: the dict still lists the seven platforms that
\* add_subscription prints as supported
get_scraper_seven(platform) ==
  IF platform \in DOMAIN Scrapers \ {"twitter", "zsxq"} THEN Scrapers[platform] ELSE None

\* scrapers.get(platform.lower()); scraper_class() if scraper_class else None
get_scraper(platform) ==
  IF platform \in DOMAIN Scrapers THEN Scrapers[platform] ELSE None

\* RSSEngine.add_subscription(url) up to the insert: False for an unsupported
\* URL, otherwise the row is inserted with the detected tag (or the row of the
\* URL is found)
RegistryAdd(url) ==
  /\ Len(subscriptions) < NumSubs
  /\ LET platform == DetectPlatform(url)
         r == add_subscription(subscriptions, url, platform,
                               PlaceholderTitle(platform),
                               PlaceholderDescription(platform))
     IN IF platform = "unknown"
          THEN /\ UNCHANGED subscriptions
               /\ registry' = [pc |-> "added", url |-> url, result |-> "False"]
          ELSE /\ subscriptions' = r.subs
               /\ registry' = [pc |-> "added", url |-> url, result |-> "True",
                                id |-> r.id]
  /\ UNCHANGED <<hasFcntl, clock, items, lockVars, runVars, histVars,
                 adder, chainVars, callVars, dates, fill, report, tailVars>>

\* _fetch_subscription of a task for subscription row j, up to its check of
\* the scraper: ValueError("No scraper available ...") when get_scraper
\* returned None
RegistryGetScraper(j) ==
  /\ j \in 1..Len(subscriptions)
  /\ LET got == get_scraper(subscriptions[j].platform)
     IN registry' = [pc |-> "fetching", id |-> subscriptions[j].id,
                     platform |-> subscriptions[j].platform,
                     scraper |-> got,
                     raised |-> IF got = None THEN "No scraper available" ELSE None]
  /\ registry' # registry
  /\ UNCHANGED <<hasFcntl, clock, storeVars, lockVars, runVars, histVars,
                 adder, chainVars, callVars, dates, fill, report, tailVars>>

NextRegistry ==
  \/ \E url \in Urls : RegistryAdd(url)
  \/ \E j \in SubIds : RegistryGetScraper(j)

\* `--add URL` invocations on an empty store and the fetch tasks for the rows
\* they created
InitRegistry == hasFcntl = TRUE /\ InitStore(0)

SpecRegistry == InitRegistry /\ [][NextRegistry]_vars

\* ------------------------------------------------------- fetch window
\* entries[:20], notes[:20], note_sections[:20], topics[:20]
FeedWindow == 20
\* "--playlist-items", "1:15"
PlaylistItems == 15

\* seq[:k]
Slice(seq, k) == SubSeq(seq, 1, IF Len(seq) < k THEN Len(seq) ELSE k)

\* what sets one entry of a payload apart from the others: it carries no
\* identifier, or its description runs over a second line, which may itself
\* hold the helper's field separator five times
Marks == {"none", "no_id", "second_line", "second_line_fields"}

\* a payload of n entries in the order of the source, entry m marked
Payload(n, m, mark) ==
  [i \in 1..n |-> [entry |-> i, mark |-> IF i = m THEN mark ELSE "none"]]

\* the paths of fetch_items that build items from a payload
FeedPaths == {"atom", "rss2", "xhs_api", "xhs_dom", "syndication", "pub_api"}
\* parse_rss_xml appends one item per element; the other loops `continue`
\* on an entry without identifier
SkipsBlank(path) == path \notin {"atom", "rss2"}

parse_entries(path, entries) ==
  LET Kept(e) == ~(SkipsBlank(path) /\ e.mark = "no_id")
      Item(e) == [entry |-> e.entry, line |-> 1]
      window == SelectSeq(Slice(entries, FeedWindow), Kept)
  IN [i \in 1..Len(window) |-> Item(window[i])]

\* the lines yt-dlp prints for one video: the seven fields joined by "|||",
\* the description being the last and printed with its line breaks
PrintedLines(v) ==
  LET head == [entry |-> v.entry, line |-> 1, parts |-> 7]
  IN CASE v.mark = "second_line" ->
            <<head, [entry |-> v.entry, line |-> 2, parts |-> 1]>>
       [] v.mark = "second_line_fields" ->
            <<head, [entry |-> v.entry, line |-> 2, parts |-> 6]>>
       [] OTHER -> <<head>>

RECURSIVE Stdout(_)
Stdout(videos) ==
  IF videos = <<>> THEN <<>>
  ELSE PrintedLines(Head(videos)) \o Stdout(Tail(videos))

\* yt-dlp --playlist-items 1:15: the first fifteen videos of the channel
yt_dlp(videos) == Stdout(Slice(videos, PlaylistItems))

\* the loop over result.stdout: one item per line of at least six parts
parse_stdout(lines) ==
  LET Kept(l) == l.parts >= 6
      kept == SelectSeq(lines, Kept)
  IN [i \in 1..Len(kept) |-> [entry |-> kept[i].entry, line |-> kept[i].line]]

fetch_items(path, payload) ==
  IF path = "yt_dlp" THEN parse_stdout(yt_dlp(payload))
  ELSE parse_entries(path, payload)

\* one fetch_items call on one path, for a source holding n entries
FeedFetch(path, n, m, mark) ==
  /\ feed = NoFeed
  /\ feed' = [pc |-> "returned", path |-> path,
              payload |-> Payload(n, m, mark),
              items |-> fetch_items(path, Payload(n, m, mark))]
  /\ UNCHANGED <<hasFcntl, clock, storeVars, lockVars, runVars, histVars,
                 adder, chainVars, callVars, dates, fill, report, registry,
                 instances, lazy>>

NextFeed ==
  \E path \in FeedPaths \cup {"yt_dlp"}, n \in 0..MaxEntries, mark \in Marks :
    \E m \in 0..n : FeedFetch(path, n, m, mark)

SpecFeed == Init /\ [][NextFeed]_vars

\* ------------------------------------------------------- adapter instances
FetchTasks == {1, 2}

\* the error text a failing fetch_items call of task t records
ErrorOf(t) == IF t = 1 THEN "error of task 1" ELSE "error of task 2"

\* BaseScraper.__init__: self.last_error = None
NewScraper == [last_error |-> None]

\* get_scraper served from one instance per platform
instantiate_cached(objs) ==
  IF objs = <<>> THEN [objs |-> <<NewScraper>>, ref |-> 1]
  ELSE [objs |-> objs, ref |-> 1]

\* scraper_class(): every get_scraper call constructs an adapter of its own
instantiate(objs) == [objs |-> Append(objs, NewScraper), ref |-> Len(objs) + 1]

\* the pool runs the fetch tasks of two subscriptions of one platform
InstancesStart ==
  /\ instances = NoInstances
  /\ instances' = [pc |-> "running", objs |-> <<>>,
                   task |-> [t \in FetchTasks |-> [pc |-> "start"]]]
  /\ UNCHANGED <<hasFcntl, clock, storeVars, lockVars, runVars, histVars,
                 adder, chainVars, callVars, dates, fill, report, registry,
                 feed, lazy>>

InstancesStep(t, from, objs, rec) ==
  /\ instances.pc = "running"
  /\ instances.task[t].pc = from
  /\ instances' = [instances EXCEPT !.objs = objs, !.task[t] = rec]
  /\ UNCHANGED <<hasFcntl, clock, storeVars, lockVars, runVars, histVars,
                 adder, chainVars, callVars, dates, fill, report, registry,
                 feed, lazy>>

\* scraper = self.scraper_factory.get_scraper(platform)
TaskGetScraper(t) ==
  LET got == instantiate(IF instances.pc = "running" THEN instances.objs ELSE <<>>)
  IN InstancesStep(t, "start", got.objs, [pc |-> "got", scraper |-> got.ref])

\* fetch_items begins: self.last_error = None
TaskFetchBegin(t) ==
  LET me == instances.task[t]
  IN InstancesStep(t, "got",
       [instances.objs EXCEPT ![me.scraper].last_error = None],
       [me EXCEPT !.pc = "fetching"])

\* fetch_items fails: self.last_error = <text>; return []
TaskFetchFail(t) ==
  LET me == instances.task[t]
  IN InstancesStep(t, "fetching",
       [instances.objs EXCEPT ![me.scraper].last_error = ErrorOf(t)],
       [pc |-> "returned", scraper |-> me.scraper, own |-> ErrorOf(t)])

\* fetch_items finds nothing and no error: return []
TaskFetchEmpty(t) ==
  LET me == instances.task[t]
  IN InstancesStep(t, "fetching", instances.objs,
       [pc |-> "returned", scraper |-> me.scraper, own |-> None])

\* fetch_items returns items: last_error is not looked at
TaskFetchItems(t) ==
  LET me == instances.task[t]
  IN InstancesStep(t, "fetching", instances.objs,
       [pc |-> "done", scraper |-> me.scraper, own |-> None, raised |-> None])

\* if not items: scraper_error = getattr(scraper, "last_error", None)
TaskReadError(t) ==
  LET me == instances.task[t]
  IN InstancesStep(t, "returned", instances.objs,
       [pc |-> "done", scraper |-> me.scraper, own |-> me.own,
        raised |-> instances.objs[me.scraper].last_error])

NextInstances ==
  \/ InstancesStart
  \/ \E t \in FetchTasks :
       \/ TaskGetScraper(t)
       \/ TaskFetchBegin(t)
       \/ TaskFetchFail(t)
       \/ TaskFetchEmpty(t)
       \/ TaskFetchItems(t)
       \/ TaskReadError(t)

SpecInstances == Init /\ [][NextInstances]_vars

\* ------------------------------------------------------- Behance skip
BehanceUrl == {"behance.net"}

\* the fetch task of subscription row j whose fetch_items call returned an
\* empty list, and the as_completed body that handles its future
FetchedEmpty(j) ==
  /\ j \in 1..Len(subscriptions)
  /\ scraper # NoScraper
  /\ scraper.pc = "returned"
  /\ scraper.items = <<>>
  /\ scraper.platform = subscriptions[j].platform
  /\ clock < MaxTicks
  /\ LET sub == subscriptions[j]
         o == [raised |-> None, ids |-> <<>>, last_error |-> scraper.last_error]
         t == AfterFetch([NewTask(sub) EXCEPT !.st = "fetching"], o)
         st == [results |-> results[TheRun], all_new_items |-> all_new_items[TheRun],
                error_rows |-> error_rows[TheRun], subs |-> subscriptions,
                now |-> clock + 1]
         nx == HandleFuture(st, sub, t)
     IN /\ results' = [results EXCEPT ![TheRun] = nx.results]
        /\ all_new_items' = [all_new_items EXCEPT ![TheRun] = nx.all_new_items]
        /\ error_rows' = [error_rows EXCEPT ![TheRun] = nx.error_rows]
        /\ subscriptions' = nx.subs
  /\ clock' = clock + 1
  /\ scraper' = [scraper EXCEPT !.pc = "idle"]
  /\ UNCHANGED <<hasFcntl, items, lockVars, pc, started, max_workers, tasks,
                 summary, ret, outcome, histVars, adder, scraped, callVars,
                 pureVars>>

NextBehance ==
  \/ RegistryAdd(BehanceUrl)
  \/ \E guid \in FeedGuids : GetScraper(DetectPlatform(BehanceUrl), TRUE, guid)
  \/ \E url_ok \in BOOLEAN : BeginFetch(url_ok)
  \/ \E kind \in PathOutcomes, n \in NativeIds : PrimaryStep(kind, n)
  \/ StoreScraped
  \/ \E j \in SubIds : FetchedEmpty(j)

\* a store holding one Behance subscription, fetched cycle after cycle
SpecBehance == InitRegistry /\ [][NextBehance]_vars

\* ------------------------------------------------------- title over fetches
\* the subscriptions added in this scenario
TitleUrls == {{"youtube.com"}, {"x.com"}, {"vimeo.com"}}

\* the channel name the first item of a fetched list can carry
FetchedChannels ==
  {<<>>, <<"bilibili-space">>, <<"Alice">>, <<"Bob", "weibo-suffix">>,
   <<"Vimeo /", "Carol">>, <<"daily", "subscription">>}

\* _fetch_subscription of row j from the returned list to the item loop: the
\* name of the first item is cleaned and, when not empty, handed to the store
Backfill(j, channel) ==
  /\ j \in 1..Len(subscriptions)
  /\ LET channel_name == CleanChannelName(channel)
     IN subscriptions' =
          IF channel_name # <<>>
            THEN update_subscription_title(subscriptions, subscriptions[j].id, channel_name)
            ELSE subscriptions
  /\ subscriptions' # subscriptions
  /\ UNCHANGED <<hasFcntl, clock, items, lockVars, runVars, histVars, auxVars>>

NextTitles ==
  \/ \E url \in TitleUrls : RegistryAdd(url)
  \/ \E j \in SubIds, channel \in FetchedChannels : Backfill(j, channel)

SpecTitles == InitRegistry /\ [][NextTitles]_vars

\* ------------------------------------------------------- lazy classifier
\* RSSEngine.__init__: self._classifier = None; the worker tasks of the run
\* have not reached a classification call yet.  `constructed` counts the
\* get_classifier calls that returned a classifier.
LazyStart ==
  /\ lazy = NoLazy
  /\ lazy' = [pc |-> "running", _classifier |-> None, constructed |-> 0,
              task |-> [t \in FetchTasks |-> [pc |-> "loop", got |-> None]]]
  /\ UNCHANGED <<hasFcntl, clock, storeVars, lockVars, runVars, histVars,
                 adder, chainVars, callVars, dates, fill, report, registry,
                 feed, instances>>

LazyStep(t, from, nx) ==
  /\ lazy.pc = "running"
  /\ lazy.task[t].pc = from
  /\ lazy' = nx
  /\ UNCHANGED <<hasFcntl, clock, storeVars, lockVars, runVars, histVars,
                 adder, chainVars, callVars, dates, fill, report, registry,
                 feed, instances>>

\* a classifier object, named after the get_classifier call that built it
Classifier(n) == IF n = 1 THEN "classifier 1" ELSE "classifier 2"

\* self.classifier is evaluated for a new item: if self._classifier is None
LazyCheck(t) ==
  LazyStep(t, "loop",
    [lazy EXCEPT !.task[t].pc = IF lazy._classifier = None THEN "constructing"
                                ELSE "returning"])

\* get_classifier(self._use_llm) returns a new classifier
LazyConstruct(t) ==
  /\ lazy.pc = "running"
  /\ lazy.constructed < Cardinality(FetchTasks)
  /\ LazyStep(t, "constructing",
       [lazy EXCEPT !.constructed = @ + 1,
                    !.task[t] = [pc |-> "storing", got |-> Classifier(lazy.constructed + 1)]])

\* get_classifier raises: the except of the item loop keeps the default label
LazyRaise(t) ==
  LazyStep(t, "constructing",
    [lazy EXCEPT !.task[t] = [pc |-> "loop", got |-> "raised"]])

\* self._classifier = <the classifier just built>
LazyStore(t) ==
  LazyStep(t, "storing",
    [lazy EXCEPT !._classifier = lazy.task[t].got, !.task[t].pc = "returning"])

\* return self._classifier; classify_item is called on it and the loop goes on
LazyReturn(t) ==
  LazyStep(t, "returning",
    [lazy EXCEPT !.task[t] = [pc |-> "loop", got |-> lazy._classifier]])

NextLazy ==
  \/ LazyStart
  \/ \E t \in FetchTasks :
       \/ LazyCheck(t)
       \/ LazyConstruct(t)
       \/ LazyRaise(t)
       \/ LazyStore(t)
       \/ LazyReturn(t)

SpecLazy == Init /\ [][NextLazy]_vars

\* ------------------------------------------------------------------ HTTP
\* values of RSS_HTTP_RETRIES, and of the retries argument of get (<<>> is None)
RetryEnvs == (0 - 1)..MaxRetries
RetryArgs == {<<>>} \cup {<<r>> : r \in RetryEnvs}

\* values of RSS_HTTP_BACKOFF, in tenths of a second (the default is 0.8)
Backoffs == {0, 8}

\* a mutant of SleepFor: every wait is one retry_backoff long
SleepForFlat(retry_backoff, attempt) == retry_backoff

\* the wait after the failed attempt number `attempt` (counted from 0)
SleepFor(retry_backoff, attempt) == retry_backoff * (attempt + 1)

\* BaseScraper.__init__: the retry settings are read from the environment
NewBaseScraper(env, backoff) ==
  /\ http = NoHttp
  /\ http' = [pc |-> "ready", env |-> env, max_retries |-> Max(1, env),
               retry_backoff |-> backoff]
  /\ UNCHANGED <<hasFcntl, clock, storeVars, lockVars, runVars, histVars, adder,
                 chainVars, caller, pureVars>>

\* BaseScraper.get up to its loop
Get(retries) ==
  /\ http # NoHttp
  /\ http.pc \in {"ready", "returned", "raised"}
  /\ http' = [pc |-> "trying", env |-> http.env, max_retries |-> http.max_retries,
               retry_backoff |-> http.retry_backoff,
               retries |-> retries,
               limit |-> Max(1, IF retries # <<>> THEN retries[1] ELSE http.max_retries),
               attempt |-> 0, tried |-> <<>>, slept |-> <<>>]
  /\ UNCHANGED <<hasFcntl, clock, storeVars, lockVars, runVars, histVars, adder,
                 chainVars, caller, pureVars>>

\* one turn of the loop of get: the request succeeds and the response is
\* returned, or it fails; the last failure is raised at once, any other is
\* followed by a sleep
Attempt(ok) ==
  /\ http # NoHttp
  /\ http.pc = "trying"
  /\ LET h == [http EXCEPT !.tried = Append(http.tried, ok)]
     IN http' =
          IF ok THEN [h EXCEPT !.pc = "returned"]
          ELSE IF h.attempt = h.limit - 1 THEN [h EXCEPT !.pc = "raised"]
          ELSE [h EXCEPT !.slept = Append(h.slept, SleepFor(h.retry_backoff, h.attempt)),
                         !.attempt = h.attempt + 1]
  /\ UNCHANGED <<hasFcntl, clock, storeVars, lockVars, runVars, histVars, adder,
                 chainVars, caller, pureVars>>

NextHttp ==
  \/ \E env \in RetryEnvs, backoff \in Backoffs : NewBaseScraper(env, backoff)
  \/ \E retries \in RetryArgs : Get(retries)
  \/ \E ok \in BOOLEAN : Attempt(ok)

\* one scraper making get calls, nothing else running
SpecHttp == Init /\ [][NextHttp]_vars

\* ------------------------------------------------------------------ properties
RowsWithKey(k) == {i \in 1..Len(items) : items[i].item_id = k}

\* the add_item calls task i of run p has made, as indices of its call log
CallsOf(p, i) == 1..Len(tasks[p][i].calls)

\* C1: for every item key that add_item was called with, however many calls
\* there were and however the workers interleaved, exactly one call returned
\* True (all the others returned False) and the store holds exactly one row
\* with that key
C1_ExactlyOneInsertSucceeds ==
  \A k \in AllKeys :
    k \in addCalled => addTrue[k] = 1 /\ Cardinality(RowsWithKey(k)) = 1

\* two workers of one run, for different subscriptions, both passed the
\* item_exists pre-check and both called add_item with the same key: one call
\* returned True and the other False
C1_Witness ==
  \E p \in Procs : \E i, j \in TaskIds(p) :
    /\ i # j
    /\ \E a \in CallsOf(p, i), b \in CallsOf(p, j) :
         /\ tasks[p][i].calls[a].item_id = tasks[p][j].calls[b].item_id
         /\ tasks[p][i].calls[a].added
         /\ ~tasks[p][j].calls[b].added

\* C2: no step changes or deletes an item row that exists: every row keeps
\* its position and all its fields (owner, title, category, pub_date,
\* metadata) as the first insert wrote them
C2_ItemRowsImmutable ==
  [][\A r \in 1..Len(items) : r <= Len(items') /\ items'[r] = items[r]]_vars

\* add_item was called for a key whose row is owned by another subscription
\* and carries another title; the call returned False and the row is as it was
C2_Witness ==
  \E p \in Procs : \E i \in TaskIds(p) : \E a \in CallsOf(p, i) :
    /\ ~tasks[p][i].calls[a].added
    /\ \E r \in RowsWithKey(tasks[p][i].calls[a].item_id) :
         /\ items[r].subscription_id # tasks[p][i].sub.id
         /\ items[r].title # RawItem(tasks[p][i].sub, tasks[p][i].calls[a].item_id[2]).title

\* the process is inside the block guarded by update_lock
Guarded(p) ==
  pc[p] \in {"locked", "collecting", "finalizing", "returned", "raised", "interrupted"}

Holders == {p \in Procs : Guarded(p)}

\* the process is about to enter update_lock
AboutToAcquire(p) == pc[p] = "idle" /\ InvokedInOrder(p)

\* while a run is inside the guarded block every other acquire fails at once
\* with the "already running" condition and cannot succeed, so no two runs are
\* inside together; while no run is inside, the next acquire succeeds
LockExcludes ==
  /\ Cardinality(Holders) <= 1
  /\ \A p \in Procs : pc[p] = "conflict" => outcome[p] = "already_running"
  /\ \A p \in Procs :
       AboutToAcquire(p) =>
         IF Holders # {}
           THEN ENABLED AcquireFail(p) /\ ~ENABLED Acquire(p)
           ELSE ENABLED Acquire(p) /\ ~ENABLED AcquireFail(p)

\* C3 as stated: on every platform, while one caller holds the update lock any
\* other acquire fails immediately with "Another update is already running",
\* no two runs hold the lock together, and after the release the next acquire
\* succeeds
C3_LockExcludesEverywhere == LockExcludes

\* C3: where the fcntl module exists, while one caller holds the update lock
\* any other acquire fails immediately with "Another update is already
\* running", no two runs hold the lock together, and after the release the
\* next acquire succeeds
C3_LockExcludesWithFcntl == hasFcntl => LockExcludes

\* one run is inside the guarded block, holding the flock, and a second
\* invocation has failed with the "already running" condition
C3_Witness ==
  /\ hasFcntl
  /\ \E p, q \in Procs :
       /\ Guarded(p) /\ p \in flockHeld
       /\ pc[q] = "conflict" /\ outcome[q] = "already_running"

\* C4: once the guarded block was left, by return, by an exception or by
\* KeyboardInterrupt, the process no longer holds the lock, and when no run is
\* inside the block the next acquire succeeds
C4_LockReleasedOnEveryExit ==
  /\ \A p \in Procs : pc[p] \in {"unlocked", "exited"} => p \notin flockHeld
  /\ \A p \in Procs :
       pc[p] = "unlocked" => outcome[p] \in {"ok", "error", "cancelled"}
  /\ \A q \in Procs :
       AboutToAcquire(q) /\ Holders = {} => ENABLED Acquire(q)

\* a run was interrupted while its futures were pending, left the guarded
\* block, and the next invocation has acquired the lock
C4_Witness ==
  \E p, q \in Procs :
    /\ pc[p] = "unlocked" /\ outcome[p] = "cancelled"
    /\ pc[q] = "locked" /\ flockHeld = {q}

\* the run is past the submit loop and its bookkeeping is in place
InRun(p) == pc[p] \in {"collecting", "finalizing", "returned", "raised"}

\* update_all has handled every future of the run
RunCollected(p) == pc[p] \in {"finalizing", "returned", "raised"} /\ tasks[p] # NoTasks

SubOf(p, i) == tasks[p][i].sub
IsCollected(p, i) == InRun(p) /\ SubOf(p, i).id \in Collected(p)
StampOf(sid) == subscriptions[sid].last_updated
ItemsIn(new_items, part) ==
  \A a \in 1..Len(part) : \E b \in 1..Len(new_items) : new_items[b] = part[a]
FailedTasks(p) == {i \in TaskIds(p) : tasks[p][i].st = "raised"}
ErrorRowsFor(p, i) ==
  {e \in 1..Len(error_rows[p]) : error_rows[p][e].url = SubOf(p, i).url}

\* C5: tasks that raise never make update_all raise: the run leaves the
\* collection loop only with every future handled, whatever the completion
\* order, and when it returns, every task that did not raise has its new items
\* in the returned new_items and its subscription's last_updated advanced
C5_FailuresIsolated ==
  \A p \in Procs :
    /\ RunCollected(p) => \A i \in TaskIds(p) : IsCollected(p, i)
    /\ \A i \in TaskIds(p) :
         IsCollected(p, i) /\ tasks[p][i].st = "done" =>
           /\ ItemsIn(all_new_items[p], tasks[p][i].new)
           /\ StampOf(SubOf(p, i).id) >= started[p]
           /\ pc[p] = "returned" => ItemsIn(ret[p].new_items, tasks[p][i].new)

\* a run returned although one of its tasks raised; another subscription's
\* task, handled before or after it, has its new items in the returned list
\* and its last_updated advanced
C5_Witness ==
  \E p \in Procs : \E i, j \in TaskIds(p) :
    /\ pc[p] = "returned"
    /\ tasks[p][i].st = "raised"
    /\ tasks[p][j].st = "done" /\ tasks[p][j].new # <<>>
    /\ ItemsIn(ret[p].new_items, tasks[p][j].new)
    /\ StampOf(SubOf(p, j).id) = started[p]

\* C6: a task whose adapter returned an empty list with a recorded last_error
\* is a failure and, once handled, has exactly one entry in the run's errors;
\* a task whose adapter returned an empty list with no last_error succeeds
\* with zero new items, has no error entry, and its subscription's
\* last_updated is advanced
C6_EmptyListOutcomes ==
  \A p \in Procs : \A i \in TaskIds(p) :
    tasks[p][i].fetched = "empty" =>
      IF tasks[p][i].last_error # None
        THEN /\ tasks[p][i].st = "raised" /\ tasks[p][i].exc = tasks[p][i].last_error
             /\ IsCollected(p, i) =>
                  /\ Cardinality(ErrorRowsFor(p, i)) = 1
                  /\ results[p][SubOf(p, i).id] =
                       [count |-> 0, error |-> tasks[p][i].last_error]
        ELSE /\ tasks[p][i].st = "done" /\ tasks[p][i].new = <<>>
             /\ ErrorRowsFor(p, i) = {}
             /\ IsCollected(p, i) =>
                  /\ results[p][SubOf(p, i).id] = [count |-> 0, error |-> None]
                  /\ StampOf(SubOf(p, i).id) >= started[p]

\* one run handled both kinds of empty result: one subscription failed with
\* its adapter's last_error, another was a successful no-op
C6_Witness ==
  \E p \in Procs : \E i, j \in TaskIds(p) :
    /\ IsCollected(p, i) /\ IsCollected(p, j)
    /\ tasks[p][i].fetched = "empty" /\ tasks[p][i].last_error # None
    /\ Cardinality(ErrorRowsFor(p, i)) = 1
    /\ tasks[p][j].fetched = "empty" /\ tasks[p][j].last_error = None
    /\ StampOf(SubOf(p, j).id) = started[p]

\* C7 as stated: once a failed task (its adapter raised, or returned an empty
\* list with a last_error) was handled, its subscription's last_updated has
\* been advanced by the run
C7_FailedTaskStampAdvanced ==
  \A p \in Procs : \A i \in FailedTasks(p) :
    IsCollected(p, i) => StampOf(SubOf(p, i).id) >= started[p]

\* C7: a failed task's subscription is not stamped by the run: after the
\* failure was handled its last_updated is still the value from before the
\* run; only tasks that succeeded have theirs advanced
C7_FailedTaskStampNotAdvanced ==
  \A p \in Procs : \A i \in TaskIds(p) :
    IsCollected(p, i) =>
      IF tasks[p][i].st = "raised"
        THEN /\ StampOf(SubOf(p, i).id) < started[p]
             /\ StampOf(SubOf(p, i).id) = SubOf(p, i).last_updated
        ELSE StampOf(SubOf(p, i).id) = started[p]

\* a run returned with one subscription failed, its last_updated as before
\* the run, and another subscription succeeded and stamped
C7_Witness ==
  \E p \in Procs : \E i, j \in TaskIds(p) :
    /\ pc[p] = "returned"
    /\ tasks[p][i].st = "raised"
    /\ StampOf(SubOf(p, i).id) < started[p]
    /\ tasks[p][j].st = "done"
    /\ StampOf(SubOf(p, j).id) = started[p]

KeysOf(new_items) == {new_items[a].item_id : a \in 1..Len(new_items)}

\* rows whose fetched_at is not before the start of run p
RowsSince(p) == {r \in 1..Len(items) : items[r].fetched_at >= started[p]}

\* C8: the number of new items a run reports (the printed total and the
\* length of the returned list) equals the number of rows its own add_item
\* calls created: each reported item is a distinct key whose row was created
\* during the run, a key two tasks raced on is counted once, and no row that
\* existed before the run is counted
C8_ReportedCountIsRowsCreated ==
  \A p \in Procs :
    RunCollected(p) /\ pc[p] # "raised" =>
      /\ summary[p][1].total_new = created[p]
      /\ Len(all_new_items[p]) = created[p]
      /\ Cardinality(KeysOf(all_new_items[p])) = Len(all_new_items[p])
      /\ KeysOf(all_new_items[p]) = {items[r].item_id : r \in RowsSince(p)}
      /\ pc[p] = "returned" => Len(ret[p].new_items) = created[p]

\* a run returned after two of its tasks raced on one key (both passed the
\* pre-check, one insert returned True and one False) while another item was
\* already stored before the run: the run reports exactly the one row it created
C8_Witness ==
  \E p \in Procs : \E i, j \in TaskIds(p) :
    /\ pc[p] = "returned" /\ i # j
    /\ \E a \in CallsOf(p, i), b \in CallsOf(p, j) :
         /\ tasks[p][i].calls[a].item_id = tasks[p][j].calls[b].item_id
         /\ tasks[p][i].calls[a].added
         /\ ~tasks[p][j].calls[b].added
    /\ \E r \in 1..Len(items) : items[r].fetched_at < started[p]
    /\ Len(ret[p].new_items) = 1 /\ created[p] = 1

ReturnFields == {"new_items", "total_subscriptions", "feed_paths"}

\* C9 as stated: the value update_all returns holds the new items, the number
\* of subscriptions and, in a field of its own, the per-subscription error
\* list of the run
C9_ReturnCarriesErrorList ==
  \A p \in Procs :
    pc[p] = "returned" =>
      \E f \in DOMAIN ret[p] \ ReturnFields : ret[p][f] = error_rows[p]

\* C9: the value update_all returns holds the list of new items (its length
\* is the total) and the number of subscriptions of the snapshot, with the
\* feed paths when there were subscriptions, and nothing else; the error list,
\* one (platform, URL, error text) entry per failed subscription, is printed
\* as the error summary and is not returned
C9_ReturnValueFields ==
  \A p \in Procs :
    pc[p] = "returned" =>
      IF tasks[p] = NoTasks
        THEN ret[p] = [new_items |-> <<>>, total_subscriptions |-> 0]
        ELSE /\ DOMAIN ret[p] = ReturnFields
             /\ ret[p].new_items = all_new_items[p]
             /\ Len(ret[p].new_items) = summary[p][1].total_new
             /\ ret[p].total_subscriptions = Len(tasks[p])
             /\ summary[p][1].error_summary = error_rows[p]
             /\ Len(error_rows[p]) = Cardinality(FailedTasks(p))

\* a run over two subscriptions returned with one new item and one failed
\* subscription: the return counts both subscriptions and the failure is in
\* the printed error summary only
C9_Witness ==
  \E p \in Procs :
    /\ pc[p] = "returned"
    /\ DOMAIN ret[p] = ReturnFields
    /\ ret[p].total_subscriptions = 2
    /\ Len(ret[p].new_items) = 1
    /\ Len(summary[p][1].error_summary) = 1

\* C10: every subscription whose task failed has, once its future was
\* handled, exactly one entry in error_rows, carrying its platform, URL and
\* error text; a subscription whose task succeeded, or was not handled yet,
\* has none; the printed summary is that list
C10_ErrorRowsExact ==
  \A p \in Procs :
    /\ \A i \in TaskIds(p) :
         IF IsCollected(p, i) /\ tasks[p][i].st = "raised"
           THEN /\ Cardinality(ErrorRowsFor(p, i)) = 1
                /\ \A e \in ErrorRowsFor(p, i) :
                     error_rows[p][e] = [platform |-> SubOf(p, i).platform,
                                         url |-> SubOf(p, i).url,
                                         error |-> tasks[p][i].exc]
                /\ tasks[p][i].exc # None
           ELSE ErrorRowsFor(p, i) = {}
    /\ RunCollected(p) =>
         /\ Len(error_rows[p]) = Cardinality(FailedTasks(p))
         /\ summary[p][1].error_summary = error_rows[p]
         /\ summary[p][1].errors = Cardinality(FailedTasks(p))

\* both subscriptions of a run failed, one by an exception of its adapter and
\* one by an empty list with a last_error, and each has its own entry
C10_Witness ==
  \E p \in Procs : \E i, j \in TaskIds(p) :
    /\ RunCollected(p)
    /\ tasks[p][i].fetched = "raised" /\ tasks[p][j].fetched = "empty"
    /\ tasks[p][j].st = "raised"
    /\ Len(error_rows[p]) = 2
    /\ error_rows[p][1].url # error_rows[p][2].url

ExecutingTasks(p) == {i \in TaskIds(p) : Executing(tasks[p][i])}

\* C12: the pool size of a run is at least 1 for every integer value of
\* RSS_MAX_WORKERS, zero and negative ones included, and at every moment the
\* number of the run's tasks that are executing is at most the pool size;
\* a task works on one subscription only: every add_item call it made is for
\* an item of its own subscription's feed
C12_PoolBounded ==
  /\ \A env \in WorkerEnvs : Max(1, env) >= 1 /\ (env >= 1 => Max(1, env) = env)
  /\ \A p \in Procs :
       /\ max_workers[p] >= 1
       /\ Cardinality(ExecutingTasks(p)) <= max_workers[p]
       /\ \A i \in TaskIds(p) : \A a \in CallsOf(p, i) :
            \E n \in NativeIds :
              tasks[p][i].calls[a].item_id = RawItem(SubOf(p, i), n).item_id

\* a pool of one worker is busy with one subscription while the task of
\* another subscription waits in the queue
C12_Witness ==
  \E p \in Procs : \E i, j \in TaskIds(p) :
    /\ max_workers[p] = 1
    /\ tasks[p][i].st = "running" /\ tasks[p][i].calls # <<>>
    /\ tasks[p][j].st = "queued"

\* the label the classifier gives an item title, or the default when it raises
LabelFor(title) ==
  IF classify_item(title) = "RAISE" THEN DEFAULT_CATEGORY ELSE classify_item(title)

\* C13: an item whose classification raised is stored with the default
\* category; every insert that created a row is counted in the task's new
\* items, with that category; and a task that fetched items never fails and
\* never has an entry in the error summary
C13_ClassifierFailureRecovered ==
  /\ \A r \in 1..Len(items) : items[r].category = LabelFor(items[r].title)
  /\ \A p \in Procs : \A i \in TaskIds(p) :
       /\ \A a \in CallsOf(p, i) :
            tasks[p][i].calls[a].added =>
              \E b \in 1..Len(tasks[p][i].new) :
                /\ tasks[p][i].new[b].item_id = tasks[p][i].calls[a].item_id
                /\ tasks[p][i].new[b].category = LabelFor(tasks[p][i].new[b].title)
       /\ tasks[p][i].fetched = "items" =>
            /\ tasks[p][i].st # "raised"
            /\ ErrorRowsFor(p, i) = {}

\* a run returned one new item whose classification had raised: the item is
\* stored and reported with the default category and the run has no error
C13_Witness ==
  \E p \in Procs : \E i \in TaskIds(p) :
    /\ pc[p] = "returned"
    /\ error_rows[p] = <<>>
    /\ \E b \in 1..Len(ret[p].new_items) :
         /\ classify_item(ret[p].new_items[b].title) = "RAISE"
         /\ ret[p].new_items[b].category = DEFAULT_CATEGORY
         /\ \E r \in RowsWithKey(ret[p].new_items[b].item_id) :
              items[r].category = DEFAULT_CATEGORY /\ items[r].subscription_id = SubOf(p, i).id

\* the failure signatures of a primary path that are transient: a rate-limit
\* status, an anti-bot block, a timeout, an empty payload
Transient == {"ratelimited", "blocked", "timeout", "empty"}

\* fetch_items of a two-path adapter has returned and its primary path ran
ChainReturned ==
  /\ scraper # NoScraper
  /\ scraper.pc = "returned"
  /\ scraper.platform \in Chained
  /\ scraper.primary # None

\* C14 as stated: for the YouTube, Bilibili, Xiaohongshu, Twitter and Zsxq
\* adapters, every transient failure signature of the primary path (rate-limit
\* status, anti-bot block, timeout, empty payload) makes fetch_items invoke the
\* fallback exactly once, and a primary path that returns items makes it
\* invoke the fallback not at all
C14_FallbackOnEveryTransient ==
  ChainReturned =>
    /\ scraper.primary \in Transient => scraper.fallbacks = 1
    /\ scraper.primary = "items" => scraper.fallbacks = 0

\* the primary outcomes after which each adapter goes on to its fallback
FallbackTriggers(platform) ==
  CASE platform = "youtube" -> {"blocked", "ratelimited", "timeout"}
    [] platform = "bilibili" -> {"blocked"}
    [] OTHER -> PathOutcomes \ {"items"}

\* C14 amended: the fallback is invoked exactly once when the primary outcome
\* is one the adapter falls back on, and not at all otherwise: YouTube falls
\* back when yt-dlp exits non-zero (blocked, rate-limited) or times out but
\* not when it exits zero with nothing usable; Bilibili only on an anti-bot
\* 503 of the video route, not on a rate limit, a timeout or an empty feed;
\* Xiaohongshu, Twitter and Zsxq whenever the primary path yields no item; no
\* adapter when the primary path returned items
C14_FallbackPerAdapter ==
  ChainReturned =>
    scraper.fallbacks =
      IF scraper.primary \in FallbackTriggers(scraper.platform) THEN 1 ELSE 0

\* the Bilibili video route answered 503, the dynamic route was tried once
\* and its items were returned
C14_Witness ==
  /\ ChainReturned
  /\ scraper.platform = "bilibili"
  /\ scraper.primary = "blocked"
  /\ scraper.fallbacks = 1
  /\ scraper.items # <<>>

\* a path ended cleanly: it got a well-formed payload, with or without items
Clean == {"items", "empty"}

\* the last path fetch_items ran, if any: the fallback when it was invoked
LastPath == IF scraper.fallbacks > 0 THEN scraper.fallback ELSE scraper.primary

\* C15: an adapter records last_error only when its whole chain is exhausted
\* with no usable output: whenever fetch_items returns a non-empty list, or
\* the last path it ran ended cleanly, last_error is None on return
C15_LastErrorOnlyWhenExhausted ==
  (scraper # NoScraper /\ scraper.pc = "returned") =>
    ((scraper.items # <<>> \/ LastPath \in Clean) => scraper.last_error = None)

\* the ways a path fails: a network error, an error status, a page that is
\* not a feed
Failed == {"timeout", "ratelimited", "blocked", "nonfeed"}

\* at least one path ran and every path that ran failed
EveryPathFailed ==
  /\ scraper.primary # None \/ scraper.fallbacks > 0
  /\ scraper.primary \in Failed \cup {None}
  /\ scraper.fallbacks > 0 => scraper.fallback \in Failed

\* C16: for every adapter, when every path of its chain failed (network
\* error, error status, non-feed error page), fetch_items returns the empty
\* list with a non-empty last_error
C16_ExhaustedChainReportsError ==
  (scraper # NoScraper /\ scraper.pc = "returned" /\ EveryPathFailed) =>
    (scraper.items = <<>> /\ scraper.last_error # None)

\* the item_ids under which item n of the subscription is stored
StoredAs(n) == {r \in scraped : r.of = n}

\* C17: the same logical item maps to the same key in every fetch, whichever
\* path of the adapter produced it, so it is stored at most once
C17_OneKeyPerItem == \A n \in NativeIds : Cardinality(StoredAs(n)) <= 1

\* a get call is in progress or has ended
InGet == http # NoHttp /\ http.pc \in {"trying", "returned", "raised"}

\* the attempts of the call that failed
FailedAttempts == {k \in 1..Len(http.tried) : ~http.tried[k]}

\* C18: BaseScraper.get makes at most max_retries attempts, where max_retries
\* is at least 1 even when 0 or a negative number was configured or passed;
\* it returns the response of the first attempt that succeeds; after the
\* k-th failed attempt it waits retry_backoff * k before the next one; the
\* exception of the last attempt propagates with no wait after it
C18_RetryBounded ==
  InGet =>
    /\ http.limit >= 1
    /\ http.limit = IF http.retries # <<>>
                      THEN (IF http.retries[1] >= 1 THEN http.retries[1] ELSE 1)
                      ELSE (IF http.env >= 1 THEN http.env ELSE 1)
    /\ Len(http.tried) <= http.limit
    /\ \A k \in 1..Len(http.slept) : http.slept[k] = http.retry_backoff * k
    /\ http.pc = "trying" =>
         /\ FailedAttempts = 1..Len(http.tried)
         /\ Len(http.slept) = Len(http.tried)
    /\ http.pc = "returned" =>
         /\ FailedAttempts = 1..(Len(http.tried) - 1)
         /\ Len(http.slept) = Len(http.tried) - 1
    /\ http.pc = "raised" =>
         /\ FailedAttempts = 1..http.limit
         /\ Len(http.tried) = http.limit
         /\ Len(http.slept) = http.limit - 1

\* RSS_HTTP_RETRIES is negative and get was called with retries = 3: the
\* three attempts failed, after waits of 0.8 s and 1.6 s, and the third
\* failure was raised
C18_Witness ==
  /\ InGet
  /\ http.pc = "raised"
  /\ http.env < 0
  /\ http.retries = <<3>>
  /\ http.slept = <<8, 16>>

\* C19: calling the store's add_subscription with the same URL any number of
\* times, one call after another or concurrently, with the same or different
\* platform and title, never raises, returns the same subscription id every
\* time, leaves exactly one row for that URL, and leaves the existing row's
\* platform, title and description unchanged
C19_AddSubscriptionIdempotent ==
  /\ [](\A c \in Callers : caller.call[c].pc # "raised")
  /\ [](\A u \in SubIds :
          /\ Cardinality(caller.ids[u]) <= 1
          /\ caller.ids[u] # {} =>
               /\ Cardinality(RowsWithUrl(subscriptions, u)) = 1
               /\ \A i \in RowsWithUrl(subscriptions, u) : caller.ids[u] = {subscriptions[i].id})
  /\ [][caller' # caller =>
          \A i \in 1..Len(subscriptions) : subscriptions'[i] = subscriptions[i]]_vars

\* two callers added the same URL concurrently with different platform and
\* title: one INSERT made the row, the other met the conflict, and both
\* returned the id of the one row, which kept what the first call wrote
C19_Witness ==
  \E c, d \in Callers :
    /\ c # d
    /\ caller.call[c].pc = "returned"
    /\ caller.call[d].pc = "returned"
    /\ caller.call[c].url = caller.call[d].url
    /\ caller.call[c].id = caller.call[d].id
    /\ \E i \in RowsWithUrl(subscriptions, caller.call[c].url) :
         subscriptions[i].title = UserTitle

\* the titles the system generates for a new subscription:
\* "<Platform> Subscription", or none
SystemPlaceholder(title) ==
  title = <<>> \/ \E platform \in Platforms : title = PlaceholderTitle(platform)

\* C20: update_subscription_title changes a subscription's title only when
\* the current title is a system-generated placeholder; a title the system
\* did not generate, one that contains the word "Subscription" included, is
\* never overwritten by a back-fill
C20_OnlyPlaceholdersOverwritten ==
  [][\A i \in 1..Len(subscriptions) :
       subscriptions'[i].title # subscriptions[i].title =>
         SystemPlaceholder(subscriptions[i].title)]_vars

\* an `--add URL` invocation has returned from RSSEngine.add_subscription
AddReturned == adder.pc = "none" /\ adder.count > 0

\* C21: when add_subscription is given a URL from which no platform-native
\* identifier can be derived, because the platform is unrecognised or because
\* the adapter of the recognised platform cannot extract a channel or user id
\* from it, the add is reported to the caller as failed
C21_UnidentifiableAddFails ==
  (AddReturned /\ ~Identifiable(adder.url)) => adder.result = "False"

\* the text XiaohongshuScraper records when the browser session meets a
\* captcha or login redirect
CookiesExpired == "XHS cookies expired"

\* fetch_items returned nothing and left an error: _fetch_subscription raises
\* RuntimeError(last_error), which the run lists in its error summary
ErrorSurfaced ==
  /\ scraper # NoScraper
  /\ scraper.pc = "returned"
  /\ scraper.items = <<>>
  /\ scraper.last_error # None

\* C22: when the Xiaohongshu adapter's browser session detects a captcha or
\* login redirect (expired cookies), the error surfaced for the subscription
\* in the run's error summary is the cookies-expired message, not a generic
\* failure text of the later fallback
C22_CookiesExpiredSurfaced ==
  (ErrorSurfaced /\ scraper.platform = "xiaohongshu" /\ scraper.primary = "blocked")
    => scraper.last_error = CookiesExpired

\* update_all was left: it returned, or an exception or the interrupt left it
LeftUpdateAll(p) == pc[p] \in {"returned", "raised", "interrupted"}

C24_ConflictIsBenign ==
  /\ [](\A p \in Procs :
          pc[p] = "conflict" =>
            /\ ExitStatus(outcome[p]) = 0
            /\ tasks[p] = NoTasks
            /\ ret[p] = NoRet
            /\ created[p] = 0
            /\ p \notin flockHeld
            /\ \A k \in 1..Len(lockFile) : lockFile[k].pid # p)
  /\ [][\A p \in Procs :
          /\ (pc[p] = "idle" /\ TryFlock(hasFcntl, flockHeld) = "BlockingIOError") =>
               pc'[p] \in {"idle", "conflict"}
          /\ (pc[p] # "conflict" /\ pc'[p] = "conflict") =>
               UNCHANGED <<storeVars, lockVars, histVars>>
          /\ pc[p] = "conflict" => pc'[p] \in {"conflict", "exited"}]_vars

\* the second invocation met the lock while a worker of the first was
\* fetching, and returned with nothing done
C24_Witness ==
  \E p, q \in Procs :
    /\ p # q
    /\ pc[p] = "collecting"
    /\ \E i \in TaskIds(p) : tasks[p][i].st = "fetching"
    /\ pc[q] = "conflict"
    /\ outcome[q] = "already_running"
\* C25: _normalize_date returns a string that is already ISO unchanged, turns
\* an RFC-822 date into the ISO string of the same instant, returns any other
\* non-empty string unchanged, and applied to its own result of a non-empty
\* string returns that result again
C25_NormalizeDateIdempotent ==
  /\ Len(dates) >= 2 =>
       /\ ISO_DATE_RE(dates[1]) => dates[2] = dates[1]
       /\ dates[1].shape = "rfc822" =>
            /\ ISO_DATE_RE(dates[2])
            /\ dates[2].t = dates[1].t
       /\ dates[1].shape \in {"dateonly", "text"} => dates[2] = dates[1]
  /\ (Len(dates) = 3 /\ dates[1].shape # "empty") => dates[3] = dates[2]

\* an RFC-822 date was converted, and converting the result changed nothing
C25_Witness ==
  /\ Len(dates) = 3
  /\ dates[1].shape = "rfc822"
  /\ dates[2] # dates[1]
  /\ dates[3] = dates[2]

\* the subscription rows an item row refers to
OwnersOf(row) == {j \in 1..Len(subscriptions) : subscriptions[j].id = row.subscription_id}

\* C26: after any sequence of store operations every item row's
\* subscription_id is the id of an existing subscription row, and the item has
\* exactly one owning subscription
C26_ItemsHaveOneOwner ==
  \A i \in 1..Len(items) : Cardinality(OwnersOf(items[i])) = 1

\* the phases of a run in their order; a run that finds the lock taken, finds
\* no subscription, or is interrupted skips the phases it does not reach
PhaseSteps ==
  {<<"idle", "locked">>, <<"idle", "conflict">>,
   <<"locked", "collecting">>, <<"locked", "returned">>, <<"locked", "interrupted">>,
   <<"collecting", "finalizing">>, <<"collecting", "interrupted">>,
   <<"finalizing", "returned">>, <<"finalizing", "raised">>,
   <<"finalizing", "interrupted">>,
   <<"returned", "unlocked">>, <<"raised", "unlocked">>, <<"interrupted", "unlocked">>,
   <<"unlocked", "exited">>, <<"conflict", "exited">>}

C28_LockOutlivesWorkers ==
  \A p \in Procs :
    ExecutingTasks(p) # {} =>
      /\ p \in flockHeld
      /\ \A q \in Procs \ {p} : q \notin flockHeld

\* what the adapters returned to the tasks of run p: the keys of the items
\* they listed, and the tasks whose fetch raised or left an error behind
FetchedKeys(p) ==
  UNION {{RawItem(SubOf(p, i), tasks[p][i].ids[a]).item_id :
            a \in 1..Len(tasks[p][i].ids)} : i \in TaskIds(p)}
FetchFailed(p) ==
  {SubOf(p, i).id : i \in {j \in TaskIds(p) :
      \/ tasks[p][j].fetched = "raised"
      \/ tasks[p][j].fetched = "empty" /\ tasks[p][j].last_error # None}}

\* the keys stored before run p started, and the keys stored now
KeysBefore(p) == {items[r].item_id : r \in (1..Len(items)) \ RowsSince(p)}
KeysStored == {items[r].item_id : r \in 1..Len(items)}

\* C29: what a run that finished collecting has produced is a function of the
\* adapters' outputs and of the store it started from, whatever the order in
\* which the tasks ran and completed: the keys stored are the earlier keys and
\* every fetched key, the total of new items is the number of fetched keys
\* that were not stored before, the error summary names the subscriptions
\* whose fetch failed, and last_updated was advanced for all the others
C29_OutcomeOrderIndependent ==
  \A p \in Procs : RunCollected(p) =>
    /\ KeysStored = KeysBefore(p) \cup FetchedKeys(p)
    /\ summary[p][1].total_new = Cardinality(FetchedKeys(p) \ KeysBefore(p))
    /\ {e.url : e \in {error_rows[p][a] : a \in 1..Len(error_rows[p])}}
         = {subscriptions[s].url : s \in FetchFailed(p)}
    /\ {s \in 1..Len(subscriptions) : StampOf(s) = started[p]}
         = {SubOf(p, i).id : i \in TaskIds(p)} \ FetchFailed(p)

\* two tasks of one run were handed the same item and both called add_item
\* for it; one task failed; the run returned
C29_Witness ==
  \E p \in Procs :
    /\ pc[p] = "returned"
    /\ Len(tasks[p]) = 2
    /\ \E a \in CallsOf(p, 1), b \in CallsOf(p, 2) :
         /\ tasks[p][1].calls[a].item_id = tasks[p][2].calls[b].item_id
         /\ ~tasks[p][1].calls[a].added
    /\ Len(tasks[p][1].ids) # Len(tasks[p][2].ids)

\* the items of the fetched list dealt with so far
Processed == fill.idx - 1

\* C30 as stated: when any item of a non-empty fetch result carries a channel
\* name, the store is asked to back-fill the title, and it is asked after the
\* items were processed
C30_BackfillAfterItemsIfAnyNamed ==
  (fill.pc = "returned" /\ \E a \in 1..Len(fill.fetched) : fill.fetched[a].channel # <<>>) =>
    /\ fill.asked # <<>>
    /\ fill.asked[1].processed = Len(fill.fetched)

\* C30: the store is asked to back-fill the title exactly when the first item
\* of a non-empty fetch result carries a channel name of which something is
\* left after the platform decorations are removed; it is asked once, with the
\* cleaned name, before any item of the result is processed
C30_BackfillFromFirstItemBeforeLoop ==
  fill # NoFill =>
    /\ fill.asked # <<>> <=> CleanChannelName(fill.fetched[1].channel) # <<>>
    /\ fill.asked # <<>> =>
         /\ Len(fill.asked) = 1
         /\ fill.asked[1].title = CleanChannelName(fill.fetched[1].channel)
         /\ fill.asked[1].processed = 0

\* the first item carried a decorated name, the title was back-filled with the
\* cleaned name, and the items were processed afterwards
C30_Witness ==
  /\ fill # NoFill
  /\ fill.pc = "returned"
  /\ fill.fetched[1].channel = <<"Chan", "weibo-suffix">>
  /\ fill.asked # <<>>
  /\ subscriptions[fill.sub.id].title = <<"Chan">>
  /\ Len(items) = Len(fill.fetched)

\* C31: in full mode the rows handed to the update report are exactly the rows
\* created since the run recorded its start: every row the run created passes
\* the fetched_at filter and no row stored before the run does
C31_ReportIsThisCycle ==
  (report.pc = "reported" /\ ~report.digest) =>
    report.report_items = {r \in 1..Len(items) : r > report.before}

\* the instant a stored pub_date denotes
PublishTime(d) == d.t

\* C32 as stated: get_latest_per_subscription returns exactly one item for
\* every subscription that owns an item and nothing for the others, and the
\* item returned has the most recent publish time among the subscription's
\* items whose pub_date denotes one, whatever the textual shape it is stored in
C32_LatestIsMostRecent ==
  (report.pc = "reported" /\ report.digest) =>
    \A j \in 1..Len(subscriptions) :
      LET mine == {r \in report.report_items : items[r].subscription_id = subscriptions[j].id}
      IN /\ Cardinality(mine) = IF RowsOf(items, subscriptions[j].id) = {} THEN 0 ELSE 1
         /\ \A r \in mine, q \in RowsOf(items, subscriptions[j].id) :
              (items[r].pub_date.shape # "text" /\ items[q].pub_date.shape # "text") =>
                PublishTime(items[r].pub_date) >= PublishTime(items[q].pub_date)

\* C33: while a run holds the update lock the lock file holds one record, the
\* holder's process identity and the time it took the lock; a successful
\* acquire replaces the record by its own, and a failed attempt leaves the
\* record and the holder's lock as they were
C33_LockFileNamesHolder ==
  /\ [](\A p \in flockHeld :
          /\ Len(lockFile) = 1
          /\ lockFile[1].pid = p
          /\ lockFile[1].started <= clock
          /\ started[p] # NULL => lockFile[1].started = started[p])
  /\ [][\A p \in Procs :
          /\ (pc[p] = "idle" /\ pc'[p] = "locked") =>
               lockFile' = <<[pid |-> p, started |-> clock']>>
          /\ (pc[p] = "idle" /\ pc'[p] = "conflict") =>
               (lockFile' = lockFile /\ flockHeld' = flockHeld)]_vars

\* the second invocation took the lock after the first had released it, and
\* the record of the first was replaced by its own
C33_Witness ==
  /\ pc[1] \in {"unlocked", "exited"}
  /\ flockHeld = {2}
  /\ lockFile = <<[pid |-> 2, started |-> 2]>>

\* C34: every tag detect_platform returns other than "unknown" has an adapter
\* in get_scraper, so no fetch task for a stored subscription fails with "No
\* scraper available"; add_subscription on a URL detected as "unknown"
\* returns False and leaves the subscription and item rows as they were
C34_DetectedPlatformsHaveAdapters ==
  /\ [](/\ \A url \in Urls :
            DetectPlatform(url) # "unknown" => get_scraper(DetectPlatform(url)) # None
        /\ registry.pc = "fetching" => registry.raised = None
        /\ registry.pc = "added" =>
             (registry.result = "False" <=> DetectPlatform(registry.url) = "unknown"))
  /\ [][(registry'.pc = "added" /\ registry'.result = "False") =>
          (subscriptions' = subscriptions /\ items' = items)]_vars

\* a URL that contains x.com after youtu.be was added as a YouTube
\* subscription and the task for its row got the YouTube adapter
C34_Witness ==
  /\ registry.pc = "fetching"
  /\ registry.scraper = Scrapers["youtube"]
  /\ \E j \in 1..Len(subscriptions) :
       /\ subscriptions[j].id = registry.id
       /\ subscriptions[j].url = {"youtu.be", "x.com"}


\* the items follow the order of the payload they were built from
InSourceOrder(its) ==
  \A i, j \in 1..Len(its) :
    i < j => \/ its[i].entry < its[j].entry
             \/ its[i].entry = its[j].entry /\ its[i].line < its[j].line
\* C35: every fetch_items call returns at most 20 candidate items, at most 15
\* on the YouTube metadata-helper path, in the order of the source, however
\* many entries the payload has
C35_FetchWindowBounded ==
  feed.pc = "returned" =>
    /\ Len(feed.items) <= (IF feed.path = "yt_dlp" THEN PlaylistItems ELSE FeedWindow)
    /\ InSourceOrder(feed.items)


\* C36: every fetch task uses an adapter instance of its own, so the
\* last_error it reads after fetch_items is the one its own call left: the
\* failure of a concurrent task for the same platform never turns a clean
\* empty result into a failure, and is never cleared by the other task
C36_LastErrorIsOwn ==
  instances.pc = "running" =>
    /\ \A t, u \in FetchTasks :
         (t # u /\ instances.task[t].pc # "start" /\ instances.task[u].pc # "start")
           => instances.task[t].scraper # instances.task[u].scraper
    /\ \A t \in FetchTasks :
         instances.task[t].pc = "done" =>
           instances.task[t].raised = instances.task[t].own
\* one task raised its own failure while the other, having fetched in
\* between, returned a clean empty result
C36_Witness ==
  /\ instances.pc = "running"
  /\ instances.task[1].pc = "done" /\ instances.task[1].raised = ErrorOf(1)
  /\ instances.task[2].pc = "done" /\ instances.task[2].raised = None
  /\ instances.task[2].scraper = 1


\* the ways the feed request itself can fail
RequestFailures == {"blocked", "ratelimited", "timeout"}
\* the request met the status whose error text is "403 Forbidden"
Met403 == scraper.primary = "blocked"
\* C37: a Behance feed request that fails with an error text containing 403
\* returns an empty list with last_error unset, and the run records a
\* successful no-op (no error entry, last_updated advanced); any other
\* failure of the request returns an empty list with last_error set and is
\* recorded as a failure
C37_BehanceRateLimitIsNoOp ==
  /\ [](/\ scraper # NoScraper
        /\ scraper.pc = "returned"
        /\ scraper.platform = "behance"
        /\ scraper.primary \in RequestFailures
        => /\ scraper.items = <<>>
           /\ (scraper.last_error = None) = Met403
           /\ Met403
                \/ scraper.last_error = ErrorText("behance", scraper.primary))
  /\ [][\A j \in 1..Len(subscriptions) :
          (/\ scraper # NoScraper
           /\ scraper.pc = "returned"
           /\ scraper.primary \in RequestFailures
           /\ scraper'.pc = "idle"
           /\ clock' = clock + 1)
          => IF Met403
               THEN /\ error_rows' = error_rows
                    /\ results'[TheRun][subscriptions[j].id] = [count |-> 0, error |-> None]
                    /\ subscriptions'[j].last_updated = clock'
               ELSE /\ error_rows'[TheRun] =
                         Append(error_rows[TheRun],
                                [platform |-> "behance", url |-> subscriptions[j].url,
                                 error |-> ErrorText("behance", scraper.primary)])
                    /\ results'[TheRun][subscriptions[j].id] =
                         [count |-> 0, error |-> ErrorText("behance", scraper.primary)]
                    /\ subscriptions'[j].last_updated = subscriptions[j].last_updated]_vars
\* a cycle that met the 403 was recorded as a no-op after an earlier cycle
\* that timed out was recorded as a failure
C37_Witness ==
  /\ scraper # NoScraper
  /\ scraper.pc = "idle"
  /\ scraper.primary = "blocked"
  /\ Len(subscriptions) = 1
  /\ subscriptions[1].last_updated = 2
  /\ error_rows[TheRun] = <<[platform |-> "behance", url |-> BehanceUrl, error |-> "timed out"]>>
  /\ results[TheRun] # NoResults
  /\ results[TheRun][subscriptions[1].id] = [count |-> 0, error |-> None]


\* the title does not contain the word "Subscription"
NoSubscriptionWord(title) == \A i \in 1..Len(title) : title[i] # "Subscription"
\* C38: the title of a subscription the engine added is back-filled at most
\* once: once it holds a display name that is not empty and does not contain
\* "Subscription", no later fetch changes it
C38_TitleFilledOnce ==
  [][\A j \in 1..Len(subscriptions) :
       (subscriptions[j].title # <<>> /\ NoSubscriptionWord(subscriptions[j].title))
         => subscriptions'[j].title = subscriptions[j].title]_vars


\* C39: the lazily created classifier is constructed at most once per
\* RSSEngine instance, also when several worker tasks reach their first
\* classification call at the same time
C39_ClassifierConstructedOnce ==
  lazy.pc = "running" => lazy.constructed <= 1

====
